---- MODULE Spec2Model ----
(***************************************************************************)
(* Model of the axiom-ai retrieval-and-synthesis pipeline:                 *)
(*   - LRUCache and CachedEmbeddingWrapper (axiom/caching/lru_cache.py)    *)
(*   - the retry decorator (axiom/retry_utils.py)                          *)
(*   - BasicChunker (axiom/core/basic_chunker.py)                          *)
(*   - OpenAIProvider / LLMSynthesizer / QueryEngine (axiom/core)          *)
(* Each component has its own specification over the shared variables; a   *)
(* component that a specification does not exercise stays in its idle      *)
(* state.                                                                  *)
(***************************************************************************)
EXTENDS Integers, Sequences, FiniteSets, TLC

VARIABLES
    \* ---- LRUCache object (lru_cache.py:55-87) ----
    capacity,     \* self.capacity
    ttl,          \* self.ttl : NoTTL or <<seconds>>
    cache,        \* self._cache : OrderedDict as a sequence, least recent first
    stats,        \* self._stats : hits, misses, evictions, size
    now,          \* time.time()
    \* ---- observation of the calls made on the cache ----
    ops,          \* number of calls made so far (logical time of the calls)
    lastAccess,   \* key -> call number of its latest successful get or put
    last,         \* the latest call: operation, arguments, result, state before
    scen,         \* progress through the scenario put a, put b, put c, get a, put d
    \* ---- one call of a function wrapped by retry (retry_utils.py:40-145) ----
    retryCfg,     \* max_attempts, backoff_base, backoff_multiplier, exceptions
    retryFunc,    \* what the wrapped function does on its 1st, 2nd, ... invocation
    retryOut,     \* how the call of the wrapper ended
    \* ---- one call of BasicChunker.chunk (basic_chunker.py:12-85) ----
    chunkCfg,     \* chunk_size, chunk_overlap
    chunkDoc,     \* document.text
    chunkOut,     \* the list returned
    \* ---- one call of QueryEngine.query (query_engine.py:57-136) ----
    queryIn,      \* the arguments, the engine's configuration and what each
                  \* collaborator does when it is called
    queryOut,     \* how the call ended
    \* ---- threads sharing one LRUCache(thread_safe=True) ----
    lock,         \* self._lock : 0 when free, else the thread that holds it
    pc,           \* where each thread is in its call
    call,         \* the call each thread is making
    reg,          \* what each thread has read of the cache inside its call
    res,          \* the result of each thread's latest call
    serial,       \* the cache that results from running the calls one at a
                  \* time, in the order in which they took the lock
    fresh,        \* per thread: the key and value of its latest call if that
                  \* was a put that no other thread has overwritten or cleared
    tcalls,       \* calls started and gets finished so far
    \* ---- CachedEmbeddingWrapper ----
    embedOut,     \* the latest embed_batch call: its argument, the cache it
                  \* found, its result and the calls it made
    batches,      \* embed_batch calls made so far
    \* ---- OpenAIProvider.generate_answer called on its own ----
    provApi,      \* what the 1st, 2nd, 3rd call of the completions API does
    provOut,      \* how generate_answer ended, with the calls and sleeps made
    \* ---- EnsembleRetriever (hybrid retrieval of run_rag) ----
    fuseIn,       \* k, the weights, and what each retriever returns
    fuseOut,      \* the fused list, each fragment with its score
    \* ---- StateTracker (the files and query_history tables) ----
    files,        \* table files: the record of each path, or NoRecord
    history,      \* table query_history: its rows in insertion order
    rowSeq,       \* sqlite_sequence: the largest id query_history ever held
    clock,        \* datetime.now()
    trackOut,     \* the latest call on the tracker: arguments, result and
                  \* the tables as they were when it began
    trackCalls,   \* calls made so far
    \* ---- FileSystemDocumentProcessor (with a state tracker) ----
    docFault,     \* per path: the step of its processing that fails, or none
    ingestOut,    \* the latest process_document / process_batch call
    ingestCalls,  \* calls made so far
    \* ---- LLMSynthesizer._format_context_for_prompt ----
    ctxIn,        \* the ranked chunks handed to the call
    ctxOut,       \* the call's result: the context it built
    \* ---- ChromaVectorStore / SimpleVectorStore ----
    vsKind,       \* which implementation of VectorStore the store is
    vsItems,      \* what the store holds, in the order it was added
    vsOut,        \* the latest add call
    vsCalls       \* calls made so far

cacheVars == <<capacity, ttl, cache, stats, now, ops, lastAccess, last, scen>>
retryVars == <<retryCfg, retryFunc, retryOut>>
chunkVars == <<chunkCfg, chunkDoc, chunkOut>>
queryVars == <<queryIn, queryOut>>
threadVars == <<lock, pc, call, reg, res, serial, fresh, tcalls>>
embedVars == <<embedOut, batches>>
providerVars == <<provApi, provOut>>
fuseVars == <<fuseIn, fuseOut>>
trackerVars == <<files, history, rowSeq, clock, trackOut, trackCalls>>
ingestVars == <<docFault, ingestOut, ingestCalls>>
contextVars == <<ctxIn, ctxOut>>
storeVars == <<vsKind, vsItems, vsOut, vsCalls>>

vars == <<cacheVars, retryVars, chunkVars, queryVars, threadVars, embedVars,
        providerVars, fuseVars, trackerVars, ingestVars, contextVars,
        storeVars>>

\* What a step of one component leaves alone
notCache == <<retryVars, chunkVars, queryVars, threadVars, embedVars,
        providerVars, fuseVars, trackerVars, ingestVars, contextVars,
        storeVars>>
notRetry == <<cacheVars, chunkVars, queryVars, threadVars, embedVars,
        providerVars, fuseVars, trackerVars, ingestVars, contextVars,
        storeVars>>
notChunk == <<cacheVars, retryVars, queryVars, threadVars, embedVars,
        providerVars, fuseVars, trackerVars, ingestVars, contextVars,
        storeVars>>
notQuery == <<cacheVars, retryVars, chunkVars, threadVars, embedVars,
        providerVars, fuseVars, trackerVars, ingestVars, contextVars,
        storeVars>>
notThreads == <<retryVars, chunkVars, queryVars, embedVars, providerVars,
        fuseVars, trackerVars, ingestVars, contextVars, storeVars>>
notEmbed == <<retryVars, chunkVars, queryVars, threadVars, providerVars,
        fuseVars, trackerVars, ingestVars, contextVars, storeVars>>
notProvider == <<cacheVars, retryVars, chunkVars, queryVars, threadVars,
        embedVars, fuseVars, trackerVars, ingestVars, contextVars, storeVars>>
notFuse == <<cacheVars, retryVars, chunkVars, queryVars, threadVars,
        embedVars, providerVars, trackerVars, ingestVars, contextVars,
        storeVars>>
notTracker == <<cacheVars, retryVars, chunkVars, queryVars, threadVars,
        embedVars, providerVars, fuseVars, ingestVars, contextVars,
        storeVars>>
notIngest == <<cacheVars, retryVars, chunkVars, queryVars, threadVars,
        embedVars, providerVars, fuseVars, contextVars, storeVars>>
notContext == <<cacheVars, retryVars, chunkVars, queryVars, threadVars,
        embedVars, providerVars, fuseVars, trackerVars, ingestVars,
        storeVars>>
notStore == <<cacheVars, retryVars, chunkVars, queryVars, threadVars,
        embedVars, providerVars, fuseVars, trackerVars, ingestVars,
        contextVars>>

----------------------------------------------------------------------------
\* Bounds of the model
MaxCapacity == 3
MaxTTL == 1
MaxTime == 2
\* calls per behaviour: MaxOps with expiry and time, MaxLRUOps without
MaxOps == 3
MaxLRUOps == 5

CacheKeys == {"a", "b", "c", "d"}
CacheValues == {"v1", "v2"}
\* the keys and values used where time passes and entries expire
TTLKeys == {"a", "b"}
\* the value used where only the recency order matters
LRUValues == {"v1"}

\* Python's None as a returned value
None == "None"
\* Optional[float] ttl: NoTTL is None, <<t>> is the number t
NoTTL == <<>>
TTLs == {NoTTL} \cup {<<t>> : t \in 0..MaxTTL}

\* Python truth value of an Optional number: None and 0 are falsy
Truthy(o) == o # NoTTL /\ o[1] # 0

----------------------------------------------------------------------------
\* OrderedDict helpers
KeysOf(c) == {c[i].key : i \in DOMAIN c}
IndexOf(c, k) == CHOOSE i \in DOMAIN c : c[i].key = k
Entry(c, k) == c[IndexOf(c, k)]
DelKey(c, k) == SelectSeq(c, LAMBDA e : e.key # k)
MoveToEnd(c, k) == Append(DelKey(c, k), Entry(c, k))
SetItem(c, k, v, t) ==
    IF k \in KeysOf(c)
    THEN [c EXCEPT ![IndexOf(c, k)] = [key |-> k, value |-> v, timestamp |-> t]]
    ELSE Append(c, [key |-> k, value |-> v, timestamp |-> t])
PopFirst(c) == Tail(c)

\* The TTL test of _get_internal: `self.ttl and (time.time() - timestamp) > self.ttl`
Expired(tl, t, timestamp) == Truthy(tl) /\ (t - timestamp) > tl[1]

\* LRUCache._get_internal
GetInternal(c, s, key, tl, t) ==
    IF key \notin KeysOf(c)
    THEN [cache |-> c, stats |-> [s EXCEPT !.misses = @ + 1], ret |-> None]
    ELSE LET e == Entry(c, key) IN
         IF Expired(tl, t, e.timestamp)
         THEN LET c2 == DelKey(c, key) IN
              [cache |-> c2,
               stats |-> [s EXCEPT !.size = Len(c2), !.misses = @ + 1],
               ret |-> None]
         ELSE [cache |-> MoveToEnd(c, key),
               stats |-> [s EXCEPT !.hits = @ + 1],
               ret |-> e.value]

\* A cache that evicts the most recently used entry instead
EvictNewest(c) == SubSeq(c, 1, Len(c) - 1)
\* The eviction branch of _put_internal: popitem(last=False)
Evict(c) == PopFirst(c)

\* A test that lets one entry more in before it evicts
CacheOverFull(c, cap) == Len(c) > cap
\* `if len(self._cache) >= self.capacity:`
CacheFull(c, cap) == Len(c) >= cap

\* LRUCache._put_internal
PutInternal(c, s, key, value, cap, t) ==
    IF key \in KeysOf(c)
    THEN LET c2 == MoveToEnd(SetItem(c, key, value, t), key) IN
         [cache |-> c2, stats |-> [s EXCEPT !.size = Len(c2)], ret |-> None]
    ELSE LET full == CacheFull(c, cap)
             c1 == IF full THEN Evict(c) ELSE c
             s1 == IF full THEN [s EXCEPT !.evictions = @ + 1] ELSE s
             c2 == SetItem(c1, key, value, t)
         IN [cache |-> c2, stats |-> [s1 EXCEPT !.size = Len(c2)], ret |-> None]

\* A clear that also resets the eviction counter
ClearAndReset(c, s) ==
    [cache |-> <<>>, stats |-> [s EXCEPT !.size = 0, !.evictions = 0],
     ret |-> None]
\* LRUCache.clear
ClearInternal(c, s) ==
    [cache |-> <<>>, stats |-> [s EXCEPT !.size = 0], ret |-> None]

\* LRUCache.get_stats
GetStatsInternal(c, s, cap) ==
    [hits |-> s.hits, misses |-> s.misses, evictions |-> s.evictions,
     size |-> Len(c), capacity |-> cap]

----------------------------------------------------------------------------
\* The scenario of test_lru_eviction
Scenario == << <<"put", "a">>, <<"put", "b">>, <<"put", "c">>,
               <<"get", "a">>, <<"put", "d">> >>
ScenOff == 0 - 1
ScenStep(op, key) ==
    IF scen # ScenOff /\ scen < Len(Scenario) /\ Scenario[scen + 1] = <<op, key>>
    THEN scen + 1
    ELSE ScenOff

NoCall == [op |-> "none", key |-> None, value |-> None, ret |-> None,
           at |-> 0, pre |-> <<>>, preStats |-> [hits |-> 0, misses |-> 0,
           evictions |-> 0, size |-> 0], preAccess |-> [k \in CacheKeys |-> 0],
           before |-> [op |-> "none", key |-> None, ret |-> None]]

\* The record of a call: its arguments and result, the clock it read, the
\* cache as it was when the call began, and the call made before it
Called(op, key, value, r) ==
    [op |-> op, key |-> key, value |-> value, ret |-> r.ret, at |-> now,
     pre |-> cache, preStats |-> stats, preAccess |-> lastAccess,
     before |-> [op |-> last.op, key |-> last.key, ret |-> last.ret]]

\* LRUCache.__init__
CacheInit ==
    /\ capacity \in 1..MaxCapacity
    /\ ttl \in TTLs
    /\ cache = <<>>
    /\ stats = [hits |-> 0, misses |-> 0, evictions |-> 0, size |-> 0]
    /\ now = 0
    /\ ops = 0
    /\ lastAccess = [k \in CacheKeys |-> 0]
    /\ last = NoCall
    /\ scen = 0

\* LRUCache.get(key)
Get(key, budget) ==
    /\ ops < budget
    /\ LET r == GetInternal(cache, stats, key, ttl, now) IN
        /\ cache' = r.cache
        /\ stats' = r.stats
        /\ last' = Called("get", key, None, r)
        /\ lastAccess' = IF r.ret # None
                         THEN [lastAccess EXCEPT ![key] = ops + 1]
                         ELSE lastAccess
    /\ ops' = ops + 1
    /\ scen' = ScenStep("get", key)
    /\ UNCHANGED <<capacity, ttl, now>>
    /\ UNCHANGED notCache

\* LRUCache.put(key, value)
Put(key, value, budget) ==
    /\ ops < budget
    /\ LET r == PutInternal(cache, stats, key, value, capacity, now) IN
        /\ cache' = r.cache
        /\ stats' = r.stats
        /\ last' = Called("put", key, value, r)
    /\ lastAccess' = [lastAccess EXCEPT ![key] = ops + 1]
    /\ ops' = ops + 1
    /\ scen' = ScenStep("put", key)
    /\ UNCHANGED <<capacity, ttl, now>>
    /\ UNCHANGED notCache

\* LRUCache.clear()
Clear(budget) ==
    /\ ops < budget
    /\ LET r == ClearInternal(cache, stats) IN
        /\ cache' = r.cache
        /\ stats' = r.stats
        /\ last' = Called("clear", None, None, r)
    /\ ops' = ops + 1
    /\ scen' = ScenOff
    /\ UNCHANGED <<capacity, ttl, now, lastAccess>>
    /\ UNCHANGED notCache

\* The clock read by time.time() advances between calls
TimePasses ==
    /\ now < MaxTime
    /\ now' = now + 1
    /\ UNCHANGED <<capacity, ttl, cache, stats, ops, lastAccess, last, scen>>
    /\ UNCHANGED notCache

\* A cache that no specification step touches
CacheIdle ==
    /\ capacity = 1
    /\ ttl = NoTTL
    /\ cache = <<>>
    /\ stats = [hits |-> 0, misses |-> 0, evictions |-> 0, size |-> 0]
    /\ now = 0
    /\ ops = 0
    /\ lastAccess = [k \in CacheKeys |-> 0]
    /\ last = NoCall
    /\ scen = 0

\* Callers of a cache with a TTL, while time passes
CacheNext ==
    \/ \E k \in TTLKeys : Get(k, MaxOps)
    \/ \E k \in TTLKeys, v \in CacheValues : Put(k, v, MaxOps)
    \/ Clear(MaxOps)
    \/ TimePasses

\* Callers of a cache without TTL: only the order of the calls matters
LRUNext ==
    \/ \E k \in CacheKeys : Get(k, MaxLRUOps)
    \/ \E k \in CacheKeys, v \in LRUValues : Put(k, v, MaxLRUOps)
    \/ Clear(MaxLRUOps)

----------------------------------------------------------------------------
\* retry (retry_utils.py)

MaxAttempts == 3
MaxBackoffBase == 2
\* backoff_multiplier: float = 2.0
BackoffMultiplier == 2

RetValues == {"r1", "r2"}
\* exception types the wrapped function raises; Retryable is the `exceptions`
\* tuple given to retry
ExcTypes == {"TimeoutError", "KeyError"}
Retryable == {"TimeoutError"}
\* a tuple that names a base class of KeyError
RetryableBase == {"LookupError"}

Returns(v) == [kind |-> "ok", value |-> v, exc |-> None]
Raises(e) == [kind |-> "raise", value |-> None, exc |-> e]
Outcomes == {Returns(v) : v \in RetValues} \cup {Raises(e) : e \in ExcTypes}

\* The exception classes the modelled functions raise, each with the class it
\* derives from: those of Python and those of the openai package (imported at
\* openai_provider.py:15)
BaseClass ==
    [OpenAIError |-> "Exception", APIError |-> "OpenAIError",
     APIStatusError |-> "APIError", APIConnectionError |-> "APIError",
     APITimeoutError |-> "APIConnectionError",
     RateLimitError |-> "APIStatusError",
     AuthenticationError |-> "APIStatusError",
     BadRequestError |-> "APIStatusError",
     TypeError |-> "Exception",
     OSError |-> "Exception", TimeoutError |-> "OSError",
     LookupError |-> "Exception", KeyError |-> "LookupError"]
RECURSIVE IsSubclass(_, _)
IsSubclass(c, d) ==
    \/ c = d
    \/ c \in DOMAIN BaseClass /\ IsSubclass(BaseClass[c], d)
\* The classes `except exceptions as e` catches: isinstance(e, exceptions)
CaughtBy(exceptions) ==
    {c \in DOMAIN BaseClass : \E d \in exceptions : IsSubclass(c, d)}

\* A clause that catches whatever is raised
CatchesAny(exc, exceptions) == TRUE
\* `except exceptions as e:`
IsCaught(exc, exceptions) == exc \in CaughtBy(exceptions)

RECURSIVE Pow(_, _)
Pow(b, e) == IF e = 0 THEN 1 ELSE b * Pow(b, e - 1)

\* delay = backoff_base * (backoff_multiplier ** (attempt - 1))
Delay(cfg, attempt) ==
    cfg.backoff_base * Pow(cfg.backoff_multiplier, attempt - 1)

\* A wrapper that gives up one attempt early
GivesUpEarly(attempt, max_attempts) == attempt + 1 >= max_attempts
\* `if attempt >= max_attempts: break`
LastAttempt(attempt, max_attempts) == attempt >= max_attempts

\* raise AllRetriesFailed(..., original_exception=last_exception, attempts=max_attempts)
AllRetriesFailed(cfg, last_exception, log) ==
    [kind |-> "raise", value |-> None, exc |-> "AllRetriesFailed",
     attempts |-> cfg.max_attempts, original |-> last_exception, log |-> log]

\* The loop `for attempt in range(1, max_attempts + 1)` of wrapper, from
\* `attempt` on; log lists the invocations and sleeps made so far
RECURSIVE RetryLoop(_, _, _, _, _)
RetryLoop(cfg, func, attempt, last_exception, log) ==
    IF attempt > cfg.max_attempts
    THEN AllRetriesFailed(cfg, last_exception, log)
    ELSE LET o == func[attempt]
             called == Append(log, <<"call", attempt>>)
         IN IF o.kind = "ok"
            THEN [kind |-> "return", value |-> o.value, exc |-> None,
                  attempts |-> attempt, original |-> None, log |-> called]
            ELSE IF IsCaught(o.exc, cfg.exceptions)
            THEN IF LastAttempt(attempt, cfg.max_attempts)
                 THEN AllRetriesFailed(cfg, o.exc, called)
                 ELSE RetryLoop(cfg, func, attempt + 1, o.exc,
                                Append(called, <<"sleep", Delay(cfg, attempt)>>))
            ELSE [kind |-> "raise", value |-> None, exc |-> o.exc,
                  attempts |-> attempt, original |-> None, log |-> called]

\* retry(...)(func)(): wrapper
RetryWrapper(cfg, func) == RetryLoop(cfg, func, 1, None, <<>>)

Pending == [kind |-> "pending"]

Invocations(log) == Len(SelectSeq(log, LAMBDA ev : ev[1] = "call"))

RetryCfgs ==
    [max_attempts : 0..MaxAttempts, backoff_base : 1..MaxBackoffBase,
     backoff_multiplier : {BackoffMultiplier},
     exceptions : {Retryable, RetryableBase}]

RetryInit ==
    /\ retryCfg \in RetryCfgs
    /\ retryFunc \in [1..MaxAttempts -> Outcomes]
    /\ retryOut = Pending

RetryIdle ==
    /\ retryCfg = [max_attempts |-> 0, backoff_base |-> 1,
                   backoff_multiplier |-> BackoffMultiplier, exceptions |-> Retryable]
    /\ retryFunc = [i \in 1..MaxAttempts |-> Returns("r1")]
    /\ retryOut = Pending

\* The caller calls the wrapped function once
CallWrapped ==
    /\ retryOut = Pending
    /\ retryOut' = RetryWrapper(retryCfg, retryFunc)
    /\ UNCHANGED <<retryCfg, retryFunc>>
    /\ UNCHANGED notRetry

RetryNext == CallWrapped

----------------------------------------------------------------------------
\* BasicChunker (basic_chunker.py)

MaxTextLen == 6
MaxChunkSize == 4

Chars == {"x", "y"}
\* The configuration of test_simple_chunking (chunk_size=50, chunk_overlap=0)
\* and a text of 61 characters
SimpleCfg == [chunk_size |-> 50, chunk_overlap |-> 0]
SimpleText == [i \in 1..61 |-> "x"]

Min(a, b) == IF a < b THEN a ELSE b
Max(a, b) == IF a > b THEN a ELSE b

\* Python's text[lo:hi] for 0 <= lo
Slice(text, lo, hi) == SubSeq(text, lo + 1, Min(hi, Len(text)))

\* _validate_config: 0 <= chunk_overlap < chunk_size, chunk_size > 0
ValidConfig(cfg) ==
    /\ cfg.chunk_size > 0
    /\ cfg.chunk_overlap >= 0
    /\ cfg.chunk_overlap < cfg.chunk_size

\* A loop that stops as soon as a window reaches the end of the text
StopsAtEnd(start_offset, cfg, text) ==
    start_offset = 0 \/ start_offset + cfg.chunk_overlap < Len(text)
\* `while start_offset < len(text)`
LoopContinues(start_offset, cfg, text) == start_offset < Len(text)

\* A window that advances by the whole chunk size, ignoring the overlap
AdvanceNoOverlap(start_offset, cfg) == start_offset + cfg.chunk_size
\* `start_offset += self.chunk_size - self.chunk_overlap`
Advance(start_offset, cfg) == start_offset + cfg.chunk_size - cfg.chunk_overlap

\* The body of the loop of chunk, repeated while the loop condition holds
RECURSIVE ChunkLoop(_, _, _, _, _)
ChunkLoop(cfg, text, start_offset, chunk_index, chunks) ==
    IF ~LoopContinues(start_offset, cfg, text)
    THEN chunks
    ELSE LET end_offset == start_offset + cfg.chunk_size
             chunk_text == Slice(text, start_offset, end_offset)
             chunk == [text |-> chunk_text,
                       chunk_index |-> chunk_index,
                       start_offset |-> start_offset,
                       end_offset |-> start_offset + Len(chunk_text),
                       chunk_length |-> Len(chunk_text)]
         IN ChunkLoop(cfg, text, Advance(start_offset, cfg),
                      chunk_index + 1, Append(chunks, chunk))

\* BasicChunker.chunk
Chunk(cfg, text) ==
    IF text = <<>> THEN <<>> ELSE ChunkLoop(cfg, text, 0, 0, <<>>)

Texts == UNION {[1..n -> Chars] : n \in 0..MaxTextLen}
ChunkCfgs ==
    {c \in [chunk_size : 1..MaxChunkSize, chunk_overlap : 0..MaxChunkSize] :
        ValidConfig(c)}

\* A chunker that passed _validate_config and a document: a short text with
\* a small configuration, or the text and configuration of test_simple_chunking
ChunkInit ==
    /\ \/ chunkCfg \in ChunkCfgs /\ chunkDoc \in Texts
       \/ chunkCfg = SimpleCfg /\ chunkDoc = SimpleText
    /\ chunkOut = Pending

ChunkIdle ==
    /\ chunkCfg = [chunk_size |-> 1, chunk_overlap |-> 0]
    /\ chunkDoc = <<>>
    /\ chunkOut = Pending

\* The caller chunks the document
CallChunk ==
    /\ chunkOut = Pending
    /\ chunkOut' = [kind |-> "return", chunks |-> Chunk(chunkCfg, chunkDoc)]
    /\ UNCHANGED <<chunkCfg, chunkDoc>>
    /\ UNCHANGED notChunk

ChunkNext == CallChunk

----------------------------------------------------------------------------
\* OpenAIProvider, LLMSynthesizer and QueryEngine

MaxQuestionLen == 2
MaxFragments == 2
\* @retry(max_attempts=3, backoff_base=1.0, ...) on _make_api_call
ProviderAttempts == 3
ProviderBackoffBase == 1
\* context_chunks[:5] in _generate_degraded_answer
DegradedLimit == 5

QuestionChars == {" ", "q"}
Questions == UNION {[1..n -> QuestionChars] : n \in 0..MaxQuestionLen}
ApiKeys == {None, "k1", "k2"}
\* the keys of the default authenticator
ValidKeys == {"k1"}

\* exceptions=(APIError, APIConnectionError, RateLimitError, APITimeoutError)
ProviderRetryable ==
    {"APIError", "APIConnectionError", "RateLimitError", "APITimeoutError"}
\* What one call of the chat completions API does: it answers, fails with an
\* exception of the retry tuple, or fails with any other exception
ApiOutcomes ==
    {Returns("answer"), Raises("RateLimitError"), Raises("TypeError")}

ProviderCfg ==
    [max_attempts |-> ProviderAttempts, backoff_base |-> ProviderBackoffBase,
     backoff_multiplier |-> BackoffMultiplier, exceptions |-> ProviderRetryable]

\* str.strip() of a question
RECURSIVE LStrip(_)
LStrip(q) == IF q # <<>> /\ Head(q) = " " THEN LStrip(Tail(q)) ELSE q
RECURSIVE RStrip(_)
RStrip(q) ==
    IF q # <<>> /\ q[Len(q)] = " " THEN RStrip(SubSeq(q, 1, Len(q) - 1)) ELSE q
Strip(q) == RStrip(LStrip(q))

\* A check that rejects the empty string only
IsEmptyString(question) == question = <<>>
\* `if not question.strip()`
IsBlank(question) == Strip(question) = <<>>

\* APIKeyAuth.verify_key
VerifyKey(provided_key, valid_keys) ==
    /\ provided_key # None
    /\ valid_keys # {}
    /\ provided_key \in valid_keys

\* The answers query can carry
Apology == [type |-> "apology", text |-> None, excerpts |-> <<>>]
NotEnoughInfo == [type |-> "not_enough_information", text |-> None, excerpts |-> <<>>]
Synthesized(text) == [type |-> "synthesized", text |-> text, excerpts |-> <<>>]

\* A degraded answer that shows no excerpt
DegradedWithoutExcerpts(question, context_chunks) ==
    [type |-> "degraded", text |-> question, excerpts |-> <<>>]
\* LLMSynthesizer._generate_degraded_answer
DegradedAnswer(question, context_chunks) ==
    [type |-> "degraded", text |-> question,
     excerpts |-> SubSeq(context_chunks, 1, Min(DegradedLimit, Len(context_chunks)))]

\* How a method ends: it returns an answer or raises; calls lists the calls it
\* made to its collaborators, added the entries it appended to the history
Ret(answer, calls, added) ==
    [kind |-> "return", exc |-> None, answer |-> answer, calls |-> calls,
     added |-> added]
Exc(exc, calls) ==
    [kind |-> "raise", exc |-> exc, answer |-> None, calls |-> calls,
     added |-> <<>>]

\* OpenAIProvider._make_api_call under its @retry decorator
MakeApiCall(api) == RetryWrapper(ProviderCfg, api)

\* OpenAIProvider.generate_answer(query, context, history)
GenerateAnswer(api) ==
    LET r == MakeApiCall(api)
        calls == [i \in 1..Invocations(r.log) |-> "llm"]
    IN  IF r.kind = "return" THEN Ret(Synthesized(r.value), calls, <<>>)
        ELSE IF r.exc = "AllRetriesFailed" THEN Exc("AllRetriesFailed", calls)
        ELSE Exc("RuntimeError", calls)

\* LLMSynthesizer._format_history_for_prompt from the i-th item on: a line
\* is the speaker it names and the text that follows
RECURSIVE HistoryLines(_, _)
HistoryLines(items, i) ==
    IF i > Len(items) THEN <<>>
    ELSE << <<"User", items[i].question>>,
            <<"Assistant", items[i].answer>> >> \o HistoryLines(items, i + 1)
FormatHistoryForPrompt(items) ==
    IF items = <<>> THEN <<>>
    ELSE << <<"Previous conversation:">> >> \o HistoryLines(items, 1)

\* A synthesizer that records every interaction, tracker or not
AlwaysRecords(in) == TRUE
\* `if self.state_tracker and session_id:`
RecordsHistory(in) == in.tracked

\* A synthesizer that also records the default message in the history
RecordDefaultMessage(in, calls) ==
    Ret(NotEnoughInfo, Append(calls, "history_add"),
        <<[question |-> in.question, answer |-> NotEnoughInfo]>>)
\* `if not context_chunks:` returns the default message
ReturnDefaultMessage(in, calls) == Ret(NotEnoughInfo, calls, <<>>)

\* LLMSynthesizer.synthesize(query, context_chunks, session_id); tracked says
\* that a state tracker and a session id are both present
Synthesize(in, context_chunks, calls) ==
    IF context_chunks = <<>>
    THEN ReturnDefaultMessage(in, calls)
    ELSE
    LET c1 == IF in.tracked THEN Append(calls, "history_get") ELSE calls IN
    IF in.tracked /\ in.fault = "history_get"
    THEN Exc("OperationalError", c1)
    ELSE
    LET c2 == Append(c1, "context") IN
    IF in.fault = "context"
    THEN Exc("ContextError", c2)
    ELSE
    LET g == GenerateAnswer(in.api)
        c3 == Append(c2, "generate_answer") \o g.calls
    IN
    IF g.kind = "raise" /\ g.exc # "AllRetriesFailed"
    THEN Exc(g.exc, c3)
    ELSE
    LET final_answer == IF g.kind = "return"
                        THEN g.answer
                        ELSE DegradedAnswer(in.question, context_chunks)
        c4 == Append(c3, "history_add")
    IN
    IF ~RecordsHistory(in)
    THEN Ret(final_answer, c3, <<>>)
    ELSE IF in.fault = "history_add"
    THEN Exc("OperationalError", c4)
    ELSE Ret(final_answer, c4,
             <<[question |-> in.question, answer |-> final_answer]>>)

\* `raise` in query: the call ends with the exception
Raise(in, exc, calls) ==
    [kind |-> "raise", exc |-> exc, question |-> in.question, answer |-> None,
     context_chunks |-> <<>>, calls |-> calls, added |-> <<>>]
\* A handler that lets the exception go on to the caller
Reraise(in, exc, calls) == Raise(in, exc, calls)
\* `except Exception as e:` of query
OnException(in, exc, calls) ==
    [kind |-> "return", exc |-> None, question |-> in.question,
     answer |-> Apology, context_chunks |-> <<>>, calls |-> calls,
     added |-> <<>>]

\* The `try:` block of query
Pipeline(in) ==
    LET c1 == <<"embed">> IN
    IF in.fault = "embed"
    THEN OnException(in, "EmbeddingError", c1)
    ELSE
    LET c2 == Append(c1, "retrieve") IN
    IF in.fault = "retrieve"
    THEN OnException(in, "StoreError", c2)
    ELSE
    LET search_results == [i \in 1..in.found |-> i]
        a == Synthesize(in, search_results, c2)
    IN
    IF a.kind = "raise"
    THEN OnException(in, a.exc, a.calls)
    ELSE [kind |-> "return", exc |-> None, question |-> in.question,
          answer |-> a.answer, context_chunks |-> search_results,
          calls |-> a.calls, added |-> a.added]

\* QueryEngine.query(question, top_k, session_id, api_key)
Query(in) ==
    IF in.require_auth /\ ~VerifyKey(in.api_key, ValidKeys)
    THEN Raise(in, "PermissionError", <<>>)
    ELSE IF IsBlank(in.question)
    THEN Raise(in, "ValueError", <<>>)
    ELSE Pipeline(in)

Faults == {"none", "embed", "retrieve", "history_get", "context", "history_add"}

\* fault names the collaborator whose call raises (none: no call raises),
\* found the number of fragments the vector store returns, api what the
\* language-model API does on each call
QueryInputs ==
    [question : Questions, require_auth : BOOLEAN, api_key : ApiKeys,
     tracked : BOOLEAN, fault : Faults, found : 0..MaxFragments,
     api : [1..ProviderAttempts -> ApiOutcomes]]

QueryInit ==
    /\ queryIn \in QueryInputs
    /\ queryOut = Pending

QueryIdle ==
    /\ queryIn = [question |-> <<>>, require_auth |-> FALSE, api_key |-> None,
                  tracked |-> FALSE, fault |-> "none", found |-> 0,
                  api |-> [i \in 1..ProviderAttempts |-> Returns("answer")]]
    /\ queryOut = Pending

\* The caller asks the question
CallQuery ==
    /\ queryOut = Pending
    /\ queryOut' = Query(queryIn)
    /\ UNCHANGED queryIn
    /\ UNCHANGED notQuery

QueryNext == CallQuery

----------------------------------------------------------------------------
\* Threads calling get, put, clear and get_stats on one LRUCache built with
\* thread_safe=True. A call takes the lock (`with self._lock`), reads the
\* cache, writes what it changed, and releases the lock.

MaxThreadCalls == 3

Threads == {1, 2}
ThreadKeys == {"a", "b"}
ThreadCalls ==
    [op : {"get"}, key : ThreadKeys, value : {None}]
        \cup [op : {"put"}, key : ThreadKeys, value : CacheValues]
        \cup [op : {"clear", "get_stats"}, key : {None}, value : {None}]

NoReg == [cache |-> <<>>, stats |-> [hits |-> 0, misses |-> 0, evictions |-> 0, size |-> 0]]
NoRes == [op |-> "none", key |-> None, ret |-> None, after |-> <<>>,
          serialRet |-> None]

\* A cache built with thread_safe=False: self._lock is None, nobody waits
NoLock(l) == TRUE
\* threading.Lock can be acquired when no thread holds it
LockAvailable(l) == l = 0

\* The call c run on the cache (c0, s0), as the body of get, put, clear or
\* get_stats runs it
Apply(c, c0, s0, cap, tl, t) ==
    CASE c.op = "get" -> GetInternal(c0, s0, c.key, tl, t)
      [] c.op = "put" -> PutInternal(c0, s0, c.key, c.value, cap, t)
      [] c.op = "clear" -> ClearInternal(c0, s0)
      [] OTHER -> [cache |-> c0, stats |-> s0,
                   ret |-> GetStatsInternal(c0, s0, cap)]

\* The attributes of self._stats that the call assigned
StoreStats(cur, before, after) ==
    [f \in DOMAIN cur |-> IF after[f] # before[f] THEN after[f] ELSE cur[f]]

ThreadsInit ==
    /\ lock = 0
    /\ pc = [t \in Threads |-> "idle"]
    /\ call = [t \in Threads |-> [op |-> "none", key |-> None, value |-> None]]
    /\ reg = [t \in Threads |-> NoReg]
    /\ res = [t \in Threads |-> NoRes]
    /\ serial = NoReg
    /\ fresh = [t \in Threads |-> <<>>]
    /\ tcalls = [started |-> 0, gets |-> 0]

ThreadsIdle == ThreadsInit

\* Thread t calls c and enters `with self._lock`
Acquire(t, c) ==
    /\ pc[t] = "idle"
    /\ tcalls.started < MaxThreadCalls
    /\ LockAvailable(lock)
    /\ lock' = t
    /\ call' = [call EXCEPT ![t] = c]
    /\ pc' = [pc EXCEPT ![t] = "load"]
    /\ tcalls' = [tcalls EXCEPT !.started = @ + 1]
    /\ UNCHANGED <<reg, res, serial, fresh>>
    /\ UNCHANGED <<cacheVars, notThreads>>

\* Thread t reads the entry map and the counters
Load(t) ==
    /\ pc[t] = "load"
    /\ reg' = [reg EXCEPT ![t] = [cache |-> cache, stats |-> stats]]
    /\ pc' = [pc EXCEPT ![t] = "store"]
    /\ UNCHANGED <<lock, call, res, serial, fresh, tcalls>>
    /\ UNCHANGED <<cacheVars, notThreads>>

\* Thread t writes the entry map and the counters its call changes, and has
\* its return value
Store(t) ==
    /\ pc[t] = "store"
    /\ LET c == call[t]
           r == Apply(c, reg[t].cache, reg[t].stats, capacity, ttl, now)
           q == Apply(c, serial.cache, serial.stats, capacity, ttl, now)
       IN  /\ cache' = IF r.cache # reg[t].cache THEN r.cache ELSE cache
           /\ stats' = StoreStats(stats, reg[t].stats, r.stats)
           /\ res' = [res EXCEPT ![t] =
                        [op |-> c.op, key |-> c.key, ret |-> r.ret,
                         after |-> fresh[t], serialRet |-> q.ret]]
           /\ serial' = [cache |-> q.cache, stats |-> q.stats]
           /\ fresh' = [u \in Threads |->
                          IF u = t
                          THEN IF c.op = "put" THEN <<c.key, c.value>> ELSE <<>>
                          ELSE IF \/ c.op = "clear"
                                  \/ c.op = "put" /\ fresh[u] # <<>> /\ fresh[u][1] = c.key
                               THEN <<>>
                               ELSE fresh[u]]
           /\ tcalls' = IF c.op = "get" THEN [tcalls EXCEPT !.gets = @ + 1]
                        ELSE tcalls
    /\ pc' = [pc EXCEPT ![t] = "release"]
    /\ UNCHANGED <<lock, call, reg>>
    /\ UNCHANGED <<capacity, ttl, now, ops, lastAccess, last, scen>>
    /\ UNCHANGED notThreads

\* Thread t leaves `with self._lock` and returns
Release(t) ==
    /\ pc[t] = "release"
    /\ lock' = 0
    /\ pc' = [pc EXCEPT ![t] = "idle"]
    /\ UNCHANGED <<call, reg, res, serial, fresh, tcalls>>
    /\ UNCHANGED <<cacheVars, notThreads>>

ThreadsNext ==
    \/ \E t \in Threads, c \in ThreadCalls : Acquire(t, c)
    \/ \E t \in Threads : Load(t)
    \/ \E t \in Threads : Store(t)
    \/ \E t \in Threads : Release(t)

----------------------------------------------------------------------------
\* CachedEmbeddingWrapper: an embedding generator behind an LRUCache keyed by
\* the SHA-256 digest of the chunk text.

MaxBatchLen == 2
MaxBatches == 2

ChunkTexts == {"t1", "t2"}
Batches == UNION {[1..n -> ChunkTexts] : n \in 0..MaxBatchLen}

\* hashlib.sha256(text.encode('utf-8')).hexdigest(): the digest of a text,
\* a different string for each text
Digests == [t1 |-> "d1", t2 |-> "d2"]
\* A key function under which two texts collide
CollidingKey(text) == "d1"
\* CachedEmbeddingWrapper._get_cache_key
GetCacheKey(text) == Digests[text]

\* The vector the underlying generator computes for a text
Vectors == [t1 |-> "e1", t2 |-> "e2"]
EmbeddingOf(text) == Vectors[text]
\* embedding_generator.embed_batch(chunks)
GeneratorEmbedBatch(chunks) == [i \in 1..Len(chunks) |-> EmbeddingOf(chunks[i])]

\* The first loop of embed_batch from chunk i on: a cache.get per chunk.
\* w holds the cache, the counters, results, uncached_chunks, uncached_indices
RECURSIVE Lookup(_, _, _, _, _)
Lookup(w, chunks, i, tl, t) ==
    IF i > Len(chunks) THEN w
    ELSE LET cache_key == GetCacheKey(chunks[i])
             r == GetInternal(w.cache, w.stats, cache_key, tl, t)
             w1 == [w EXCEPT !.cache = r.cache, !.stats = r.stats,
                             !.gets = Append(@, cache_key)]
         IN  IF r.ret # None
             THEN Lookup([w1 EXCEPT !.results = Append(@, r.ret)],
                         chunks, i + 1, tl, t)
             ELSE Lookup([w1 EXCEPT !.results = Append(@, None),
                                    !.uncached_chunks = Append(@, chunks[i]),
                                    !.uncached_indices = Append(@, i)],
                         chunks, i + 1, tl, t)

\* The second loop of embed_batch from the j-th uncached chunk on: a cache.put
\* per fresh embedding
RECURSIVE WriteBack(_, _, _, _, _, _)
WriteBack(w, chunks, fresh_embeddings, j, cap, t) ==
    IF j > Len(w.uncached_indices) \/ j > Len(fresh_embeddings) THEN w
    ELSE LET idx == w.uncached_indices[j]
             embedding == fresh_embeddings[j]
             cache_key == GetCacheKey(chunks[idx])
             r == PutInternal(w.cache, w.stats, cache_key, embedding, cap, t)
         IN  WriteBack([w EXCEPT !.cache = r.cache, !.stats = r.stats,
                                 !.puts = Append(@, <<cache_key, embedding>>),
                                 !.results = [@ EXCEPT ![idx] = embedding]],
                       chunks, fresh_embeddings, j + 1, cap, t)

\* CachedEmbeddingWrapper.embed_batch(chunks)
EmbedBatchInternal(c, s, chunks, cap, tl, t) ==
    LET w0 == [cache |-> c, stats |-> s, results |-> <<>>,
               uncached_chunks |-> <<>>, uncached_indices |-> <<>>,
               gets |-> <<>>, puts |-> <<>>, generated |-> <<>>]
        w1 == Lookup(w0, chunks, 1, tl, t)
    IN  IF w1.uncached_chunks # <<>>
        THEN WriteBack([w1 EXCEPT !.generated = <<w1.uncached_chunks>>],
                       chunks, GeneratorEmbedBatch(w1.uncached_chunks), 1, cap, t)
        ELSE w1

NoBatch == [kind |-> "pending"]

EmbedInit ==
    /\ embedOut = NoBatch
    /\ batches = 0

EmbedIdle == EmbedInit

\* One embed_batch call on the wrapper
EmbedBatch(chunks) ==
    /\ batches < MaxBatches
    /\ LET w == EmbedBatchInternal(cache, stats, chunks, capacity, ttl, now) IN
        /\ cache' = w.cache
        /\ stats' = w.stats
        /\ embedOut' = [kind |-> "return", chunks |-> chunks, pre |-> cache,
                        at |-> now, results |-> w.results,
                        generated |-> w.generated, puts |-> w.puts]
    /\ batches' = batches + 1
    /\ UNCHANGED <<capacity, ttl, now, ops, lastAccess, last, scen>>
    /\ UNCHANGED notEmbed

\* time.time() advances between calls
EmbedTimePasses ==
    /\ now < MaxTime
    /\ now' = now + 1
    /\ UNCHANGED <<capacity, ttl, cache, stats, ops, lastAccess, last, scen>>
    /\ UNCHANGED embedVars
    /\ UNCHANGED notEmbed

EmbedNext ==
    \/ \E chunks \in Batches : EmbedBatch(chunks)
    \/ EmbedTimePasses

----------------------------------------------------------------------------
\* OpenAIProvider.generate_answer called directly, against an API that
\* answers or fails with a class of the openai package or another exception.

ProviderFailures ==
    {"RateLimitError", "AuthenticationError", "BadRequestError", "TypeError"}
ProviderOutcomes ==
    {Returns("answer")} \cup {Raises(e) : e \in ProviderFailures}

ProviderInit ==
    /\ provApi \in [1..ProviderAttempts -> ProviderOutcomes]
    /\ provOut = Pending

ProviderIdle ==
    /\ provApi = [i \in 1..ProviderAttempts |-> Returns("answer")]
    /\ provOut = Pending

\* One call of generate_answer
CallGenerateAnswer ==
    /\ provOut = Pending
    /\ LET r == GenerateAnswer(provApi) IN
         provOut' = [kind |-> r.kind, exc |-> r.exc, answer |-> r.answer,
                     log |-> MakeApiCall(provApi).log]
    /\ UNCHANGED provApi
    /\ UNCHANGED notProvider

ProviderNext == CallGenerateAnswer

----------------------------------------------------------------------------
\* EnsembleRetriever of app.py: run_rag asks a vector retriever and a BM25
\* retriever for k fragments each and fuses the two lists.

MaxTopK == 2

\* A fragment: page_content is head (its first 200 characters) followed by
\* tail; metadata holds source and page
DocX == [head |-> "hx", tail |-> "", source |-> "a.pdf", page |-> 0]
DocY == [head |-> "hy", tail |-> "", source |-> "a.pdf", page |-> 0]
DocZ == [head |-> "hz", tail |-> "", source |-> "a.pdf", page |-> 0]
\* begins like Y and goes on differently
DocY2 == [head |-> "hy", tail |-> "more", source |-> "a.pdf", page |-> 0]
\* the text of X on another page
DocX1 == [head |-> "hx", tail |-> "", source |-> "a.pdf", page |-> 1]
Documents == {DocX, DocY, DocZ, DocY2, DocX1}

\* Weights in tenths: [0.7, 0.3] is <<7, 3>>. __init__ accepts weights that
\* sum to 1.0
WeightSets == {<<7, 3>>, <<5, 5>>, <<3, 7>>}
RunRagWeights == <<7, 3>>

\* hash(doc.page_content[:200])
Hashes == [hx |-> 11, hy |-> 12, hz |-> 13]
ContentHash(head) == Hashes[head]
\* doc_key = (content_hash, source, page)
DocKey(doc) == <<ContentHash(doc.head), doc.source, doc.page>>

\* weight * (1.0 / (idx + 1)), as the fraction weight / (idx + 1) of tenths
PositionScore(weight, idx) == <<weight, idx + 1>>
Greater(a, b) == a[1] * b[2] > b[1] * a[2]

\* A merge that lets the later occurrence overwrite the earlier one
KeepsLatest(new_score, existing_score) == TRUE
\* `if new_score > existing_score:`
KeepsHigher(new_score, existing_score) == Greater(new_score, existing_score)

\* Position of key in the dict all_docs (0: absent)
FindKey(all_docs, key) ==
    IF \E i \in DOMAIN all_docs : all_docs[i].key = key
    THEN CHOOSE i \in DOMAIN all_docs : all_docs[i].key = key
    ELSE 0

\* `for idx, doc in enumerate(docs):` from idx on
RECURSIVE MergeDocs(_, _, _, _)
MergeDocs(all_docs, docs, weight, idx) ==
    IF idx >= Len(docs) THEN all_docs
    ELSE LET doc == docs[idx + 1]
             doc_key == DocKey(doc)
             at == FindKey(all_docs, doc_key)
             new_score == PositionScore(weight, idx)
             entry == [key |-> doc_key, doc |-> doc, score |-> new_score]
         IN  IF at # 0
             THEN IF KeepsHigher(new_score, all_docs[at].score)
                  THEN MergeDocs([all_docs EXCEPT ![at] = entry], docs, weight, idx + 1)
                  ELSE MergeDocs(all_docs, docs, weight, idx + 1)
             ELSE MergeDocs(Append(all_docs, entry), docs, weight, idx + 1)

\* `for retriever, weight in zip(self.retrievers, self.weights):` from i on
RECURSIVE MergeRetrievers(_, _, _, _)
MergeRetrievers(all_docs, results, weights, i) ==
    IF i > Len(results) \/ i > Len(weights) THEN all_docs
    ELSE MergeRetrievers(MergeDocs(all_docs, results[i], weights[i], 0),
                         results, weights, i + 1)

\* A sort that puts the lowest score first
LowestFirst(a, b) == Greater(b.score, a.score)
\* key=lambda x: x[1], reverse=True: a goes before b
HighestFirst(a, b) == Greater(a.score, b.score)

\* sorted(..., reverse=True) is stable: e goes after the entries that do not
\* come after it
RECURSIVE InsertSorted(_, _)
InsertSorted(sorted_docs, e) ==
    IF sorted_docs = <<>> THEN <<e>>
    ELSE IF HighestFirst(e, Head(sorted_docs))
         THEN <<e>> \o sorted_docs
         ELSE <<Head(sorted_docs)>> \o InsertSorted(Tail(sorted_docs), e)
RECURSIVE SortedByScore(_)
SortedByScore(entries) ==
    IF entries = <<>> THEN <<>>
    ELSE InsertSorted(SortedByScore(SubSeq(entries, 1, Len(entries) - 1)),
                      entries[Len(entries)])

\* EnsembleRetriever.get_relevant_documents (each document with its score)
GetRelevantDocuments(results, weights) ==
    SortedByScore(MergeRetrievers(<<>>, results, weights, 1))

UpTo(k) == UNION {[1..n -> Documents] : n \in 0..k}

\* run_rag sets k on both retrievers; each returns at most k fragments
FuseInit ==
    /\ \E k \in 1..MaxTopK :
         fuseIn \in [top_k : {k}, weights : WeightSets,
                     dense : UpTo(k), lexical : UpTo(k)]
    /\ fuseOut = Pending

FuseIdle ==
    /\ fuseIn = [top_k |-> 1, weights |-> RunRagWeights, dense |-> <<>>,
                 lexical |-> <<>>]
    /\ fuseOut = Pending

\* source_docs = hybrid_retriever.get_relevant_documents(question)
Retrieve ==
    /\ fuseOut = Pending
    /\ fuseOut' = [kind |-> "return",
                   docs |-> GetRelevantDocuments(<<fuseIn.dense, fuseIn.lexical>>,
                                                 fuseIn.weights)]
    /\ UNCHANGED fuseIn
    /\ UNCHANGED notFuse

FuseNext == Retrieve

----------------------------------------------------------------------------
\* StateTracker: the SQLite tables files (one row per file_path) and
\* query_history (one row per question asked).

MaxClock == 2
MaxTrackerCalls == 4
MaxHistoryCalls == 5
MaxLimit == 2
MaxDays == 1

Paths == {"f1", "f2"}
Sessions == {"s1", "s2"}
\* FileStatus
SEEN == "seen"
PROCESSING == "processing"
COMPLETED == "completed"
FAILED == "failed"
FileStatuses == {SEEN, PROCESSING, COMPLETED, FAILED}

NoRecord == [status |-> None, updated_at |-> 0, error_message |-> None,
             metadata |-> None]

TrackerInit ==
    /\ files = [p \in Paths |-> NoRecord]
    /\ history = <<>>
    /\ rowSeq = 0
    /\ clock = 0
    /\ trackOut = [op |-> "none"]
    /\ trackCalls = 0

TrackerIdle == TrackerInit

\* The tables after a call, and what the caller sees of it
TrackerReturns(op, args, ret, files2, history2) ==
    /\ trackCalls' = trackCalls + 1
    /\ files' = files2
    /\ history' = history2
    /\ rowSeq' = IF history2 # <<>> /\ history2[Len(history2)].id > rowSeq
                 THEN history2[Len(history2)].id
                 ELSE rowSeq
    /\ trackOut' = [op |-> op, args |-> args, ret |-> ret, at |-> clock,
                    files |-> files, history |-> history]
    /\ UNCHANGED clock
    /\ UNCHANGED notTracker

\* INSERT OR REPLACE INTO files (file_path, file_hash, status, updated_at)
SeenRecord(t) ==
    [status |-> SEEN, updated_at |-> t, error_message |-> None,
     metadata |-> None]

\* An UPDATE that leaves a record in a terminal status alone
UpdateUnlessTerminal(table, file_path, changes) ==
    IF table[file_path].status \in {None, COMPLETED, FAILED} THEN table
    ELSE [table EXCEPT ![file_path] =
            [f \in DOMAIN @ |-> IF f \in DOMAIN changes THEN changes[f] ELSE @[f]]]
\* UPDATE files SET ... WHERE file_path = ?
UpdateFile(table, file_path, changes) ==
    IF table[file_path].status = None THEN table
    ELSE [table EXCEPT ![file_path] =
            [f \in DOMAIN @ |-> IF f \in DOMAIN changes THEN changes[f] ELSE @[f]]]

\* StateTracker.record_file_seen(file_path)
RecordFileSeen(file_path, budget) ==
    /\ trackCalls < budget
    /\ TrackerReturns("record_file_seen", <<file_path>>, None,
                      [files EXCEPT ![file_path] = SeenRecord(clock)], history)

\* StateTracker.record_processing_start(file_path)
RecordProcessingStart(file_path, budget) ==
    /\ trackCalls < budget
    /\ TrackerReturns("record_processing_start", <<file_path>>, None,
                      UpdateFile(files, file_path,
                                 [status |-> PROCESSING, updated_at |-> clock]),
                      history)

\* StateTracker.record_processing_complete(file_path, metadata)
RecordProcessingComplete(file_path, metadata, budget) ==
    /\ trackCalls < budget
    /\ TrackerReturns("record_processing_complete", <<file_path, metadata>>, None,
                      UpdateFile(files, file_path,
                                 [status |-> COMPLETED, updated_at |-> clock,
                                  metadata |-> metadata]),
                      history)

\* StateTracker.record_processing_failed(file_path, error_message)
RecordProcessingFailed(file_path, error_message, budget) ==
    /\ trackCalls < budget
    /\ TrackerReturns("record_processing_failed", <<file_path, error_message>>, None,
                      UpdateFile(files, file_path,
                                 [status |-> FAILED, updated_at |-> clock,
                                  error_message |-> error_message]),
                      history)

\* A purge that looks at the age alone
OldRecord(r, cutoff_date) == r.status # None /\ r.updated_at < cutoff_date
\* WHERE updated_at < ? AND status IN (completed, failed)
Purged(r, cutoff_date) ==
    r.updated_at < cutoff_date /\ r.status \in {COMPLETED, FAILED}

\* StateTracker.cleanup_old_records(days)
CleanupOldRecords(days, budget) ==
    /\ trackCalls < budget
    /\ LET cutoff_date == clock - days
           deleted == {p \in Paths : Purged(files[p], cutoff_date)}
       IN  TrackerReturns("cleanup_old_records", <<days>>, Cardinality(deleted),
                          [p \in Paths |-> IF p \in deleted THEN NoRecord ELSE files[p]],
                          history)

\* datetime.now() moves on
Tick ==
    /\ clock < MaxClock
    /\ clock' = clock + 1
    /\ UNCHANGED <<files, history, rowSeq, trackOut, trackCalls>>
    /\ UNCHANGED notTracker

FilesNext ==
    \/ \E p \in Paths : RecordFileSeen(p, MaxTrackerCalls)
    \/ \E p \in Paths : RecordProcessingStart(p, MaxTrackerCalls)
    \/ \E p \in Paths : RecordProcessingComplete(p, "meta", MaxTrackerCalls)
    \/ \E p \in Paths : RecordProcessingFailed(p, "error", MaxTrackerCalls)
    \/ \E d \in 0..MaxDays : CleanupOldRecords(d, MaxTrackerCalls)
    \/ Tick

\* INSERT INTO query_history (session_id, question, answer, created_at);
\* id is AUTOINCREMENT, the question is numbered like its row
AddQueryToHistory(session_id, budget) ==
    /\ trackCalls < budget
    /\ LET lastrowid == rowSeq + 1
           row == [id |-> lastrowid, session_id |-> session_id,
                   question |-> lastrowid, answer |-> "answer",
                   created_at |-> clock]
       IN  TrackerReturns("add_query_to_history", <<session_id>>, lastrowid,
                          files, Append(history, row))

\* The orders in which `ORDER BY created_at DESC` may deliver rows: any order
\* with non-increasing created_at (SQL leaves the order of equal keys open)
DescOrders(rows) ==
    {o \in [1..Len(rows) -> 1..Len(rows)] :
        /\ \A i, j \in 1..Len(rows) : o[i] = o[j] => i = j
        /\ \A i, j \in 1..Len(rows) :
             i < j => rows[o[i]].created_at >= rows[o[j]].created_at}

Reversed(q) == [i \in 1..Len(q) |-> q[Len(q) + 1 - i]]
\* dict(zip(columns, row)) for the columns question, answer, created_at
HistoryItem(row) ==
    [question |-> row.question, answer |-> row.answer,
     created_at |-> row.created_at]

\* StateTracker.get_query_history(session_id, limit)
GetQueryHistory(session_id, limit, budget) ==
    /\ trackCalls < budget
    /\ LET rows == SelectSeq(history, LAMBDA r : r.session_id = session_id)
           n == IF limit < Len(rows) THEN limit ELSE Len(rows)
       IN  \E o \in DescOrders(rows) :
             LET fetched == [i \in 1..n |-> HistoryItem(rows[o[i]])]
             IN  TrackerReturns("get_query_history", <<session_id, limit>>,
                                Reversed(fetched), files, history)

\* A DELETE without its WHERE clause
KeepsNone(row, session_id) == FALSE
\* the rows `DELETE FROM query_history WHERE session_id = ?` leaves
KeepsOthers(row, session_id) == row.session_id # session_id

\* StateTracker.delete_session(session_id)
DeleteSession(session_id, budget) ==
    /\ trackCalls < budget
    /\ LET kept == SelectSeq(history, LAMBDA r : KeepsOthers(r, session_id))
           deleted == Len(history) - Len(kept)
       IN  TrackerReturns("delete_session", <<session_id>>, deleted,
                          files, kept)

HistoryNext ==
    \/ \E sid \in Sessions : AddQueryToHistory(sid, MaxHistoryCalls)
    \/ \E sid \in Sessions : DeleteSession(sid, MaxHistoryCalls)
    \/ \E sid \in Sessions, limit \in 0..MaxLimit :
         GetQueryHistory(sid, limit, MaxHistoryCalls)
    \/ Tick

----------------------------------------------------------------------------
\* FileSystemDocumentProcessor with a StateTracker: process_document and
\* process_batch. The tracker's own calls succeed; a document fails in one of
\* the steps between record_processing_start and record_processing_complete.

MaxIngestCalls == 2
MaxBatchPaths == 2

\* The step that fails for a document, and the exception it raises
DocFaults == {"none", "unsupported", "no_document", "embed", "store"}
FaultExc ==
    [unsupported |-> "ValueError", no_document |-> "ValueError",
     embed |-> "RuntimeError", store |-> "RuntimeError"]
PathLists == UNION {[1..n -> Paths] : n \in 0..MaxBatchPaths}

\* A handler that re-raises without telling the tracker
RaiseOnly(table, path, exc, t, log) ==
    [files |-> table, kind |-> "raise", exc |-> exc, chunks |-> <<>>,
     log |-> log]
\* `except Exception as e:` of process_document
RecordFailure(table, path, exc, t, log) ==
    [files |-> UpdateFile(table, path,
                          [status |-> FAILED, updated_at |-> t,
                           error_message |-> exc]),
     kind |-> "raise", exc |-> exc, chunks |-> <<>>,
     log |-> Append(log, FAILED)]

\* FileSystemDocumentProcessor.process_document(path); log lists the statuses
\* it asked the tracker to record
ProcessDocument(table, path, fault, t) ==
    LET seen == [table EXCEPT ![path] = SeenRecord(t)]
        started == UpdateFile(seen, path,
                              [status |-> PROCESSING, updated_at |-> t])
        log == <<SEEN, PROCESSING>>
    IN  IF fault # "none"
        THEN RecordFailure(started, path, FaultExc[fault], t, log)
        ELSE [files |-> UpdateFile(started, path,
                                   [status |-> COMPLETED, updated_at |-> t,
                                    metadata |-> "meta"]),
              kind |-> "return", exc |-> None, chunks |-> <<"chunks", path>>,
              log |-> Append(log, COMPLETED)]

\* `for path in paths:` of process_batch from the i-th path on; the except
\* clause logs a warning and re-raises
RECURSIVE BatchLoop(_, _, _, _, _, _)
BatchLoop(table, paths, faults, t, i, results) ==
    IF i > Len(paths)
    THEN [files |-> table, kind |-> "return", exc |-> None, results |-> results]
    ELSE LET r == ProcessDocument(table, paths[i], faults[paths[i]], t)
         IN  IF r.kind = "raise"
             THEN [files |-> r.files, kind |-> "raise", exc |-> r.exc,
                   results |-> results]
             ELSE BatchLoop(r.files, paths, faults, t, i + 1,
                            Append(results, r.chunks))

\* FileSystemDocumentProcessor.process_batch(paths); the summary it logs
\* divides by len(paths)
ProcessBatch(table, paths, faults, t) ==
    LET r == BatchLoop(table, paths, faults, t, 1, <<>>)
    IN  IF r.kind = "return" /\ Len(paths) = 0
        THEN [r EXCEPT !.kind = "raise", !.exc = "ZeroDivisionError"]
        ELSE r

IngestInit ==
    /\ docFault \in [Paths -> DocFaults]
    /\ ingestOut = [op |-> "none"]
    /\ ingestCalls = 0

IngestIdle ==
    /\ docFault = [p \in Paths |-> "none"]
    /\ ingestOut = [op |-> "none"]
    /\ ingestCalls = 0

\* A call of process_document
CallProcessDocument(path) ==
    /\ ingestCalls < MaxIngestCalls
    /\ LET r == ProcessDocument(files, path, docFault[path], clock) IN
         /\ files' = r.files
         /\ ingestOut' = [op |-> "process_document", path |-> path,
                          kind |-> r.kind, exc |-> r.exc, chunks |-> r.chunks,
                          log |-> r.log, files |-> files]
    /\ ingestCalls' = ingestCalls + 1
    /\ UNCHANGED <<docFault, history, rowSeq, clock, trackOut, trackCalls>>
    /\ UNCHANGED notIngest

\* A call of process_batch
CallProcessBatch(paths) ==
    /\ ingestCalls < MaxIngestCalls
    /\ LET r == ProcessBatch(files, paths, docFault, clock) IN
         /\ files' = r.files
         /\ ingestOut' = [op |-> "process_batch", paths |-> paths,
                          kind |-> r.kind, exc |-> r.exc,
                          results |-> r.results, files |-> files]
    /\ ingestCalls' = ingestCalls + 1
    /\ UNCHANGED <<docFault, history, rowSeq, clock, trackOut, trackCalls>>
    /\ UNCHANGED notIngest

\* datetime.now() moves on between calls
IngestTick ==
    /\ clock < MaxClock
    /\ clock' = clock + 1
    /\ UNCHANGED <<files, history, rowSeq, trackOut, trackCalls>>
    /\ UNCHANGED ingestVars
    /\ UNCHANGED notIngest

IngestNext ==
    \/ \E p \in Paths : CallProcessDocument(p)
    \/ \E paths \in PathLists : CallProcessBatch(paths)
    \/ IngestTick

----------------------------------------------------------------------------
\* LLMSynthesizer._format_context_for_prompt. A chunk carries its text, its
\* page number and num_tokens, the count the tokenizer (or the word-count
\* fallback) gives for its formatted block. The returned string is modelled as
\* the sequence of blocks that "\n\n".join glues together; the empty sequence
\* is the empty string.

MaxChunks == 3

TOKEN_BUDGET == 3000

ChunkTextsOfContext == {"alpha", "beta"}
PageNumbers == {"", "3"}
BlockTokens == {1, 1500, 3000, 3001}
ContextChunks ==
    [text : ChunkTextsOfContext, page_number : PageNumbers,
     num_tokens : BlockTokens]
ContextChunkLists == UNION {[1..n -> ContextChunks] : n \in 0..MaxChunks}

EmptyString == <<>>

\* f"{source_citation}\n---\n{chunk.text}\n---"
ContextBlock(i, chunk) ==
    [source |-> i,
     page |-> IF chunk.page_number # "" THEN chunk.page_number ELSE "N/A",
     text |-> chunk.text]

\* A test that also stops at a block that fills the budget exactly
BudgetReached(total_tokens, num_tokens) ==
    total_tokens + num_tokens >= TOKEN_BUDGET
\* `if total_tokens + num_tokens > TOKEN_BUDGET:`
BudgetExceeded(total_tokens, num_tokens) ==
    total_tokens + num_tokens > TOKEN_BUDGET

\* The loop from the i-th chunk on; `break` at the first block over the budget
RECURSIVE FormatLoop(_, _, _, _)
FormatLoop(chunks, i, prompt_context, total_tokens) ==
    IF i > Len(chunks)
    THEN [context |-> prompt_context, total_tokens |-> total_tokens]
    ELSE IF BudgetExceeded(total_tokens, chunks[i].num_tokens)
    THEN [context |-> prompt_context, total_tokens |-> total_tokens]
    ELSE FormatLoop(chunks, i + 1,
                    Append(prompt_context, ContextBlock(i, chunks[i])),
                    total_tokens + chunks[i].num_tokens)

FormatContextForPrompt(chunks) == FormatLoop(chunks, 1, <<>>, 0)

ContextInit ==
    /\ ctxIn \in ContextChunkLists
    /\ ctxOut = [op |-> "none"]

ContextIdle ==
    /\ ctxIn = <<>>
    /\ ctxOut = [op |-> "none"]

\* The call _format_context_for_prompt(chunks)
CallFormatContext(chunks) ==
    /\ ctxOut.op = "none"
    /\ ctxOut' = [op |-> "format", chunks |-> chunks,
                  context |-> FormatContextForPrompt(chunks).context,
                  total_tokens |-> FormatContextForPrompt(chunks).total_tokens]
    /\ UNCHANGED ctxIn
    /\ UNCHANGED notContext

ContextNext == CallFormatContext(ctxIn)

----------------------------------------------------------------------------
\* VectorStore.add of ChromaVectorStore (vector_store.py) and of
\* SimpleVectorStore (simple_vector_store.py). vsItems is what was handed to
\* collection.add, or the lists vectors / metadatas / ids of the simple store.

MaxStoreCalls == 2
MaxAddLen == 2

StoreKinds == {"chroma", "simple"}
StoreChunks == {"c1", "c2"}
StoreEmbeddings == {"e1"}
ChunkLists == UNION {[1..n -> StoreChunks] : n \in 0..MaxAddLen}
EmbeddingLists == UNION {[1..n -> StoreEmbeddings] : n \in 0..MaxAddLen}

AddReturns(items, ids) ==
    [items |-> items, kind |-> "return", exc |-> None, ids |-> ids]
AddRaises(items, exc) ==
    [items |-> items, kind |-> "raise", exc |-> exc, ids |-> <<>>]

\* the entries one add call stores, one per chunk
Stored(store, chunks, embeddings) ==
    [i \in 1..Len(chunks) |->
        [id |-> <<store, i, chunks[i]>>, text |-> chunks[i],
         embedding |-> embeddings[i]]]

\* ChromaVectorStore.add(chunks, embeddings)
ChromaAdd(items, chunks, embeddings) ==
    IF chunks = <<>>
    THEN AddReturns(items, <<>>)
    ELSE IF Len(chunks) # Len(embeddings)
    THEN AddRaises(items, "ValueError")
    ELSE LET new == Stored("chroma", chunks, embeddings)
         IN  AddReturns(items \o new, [i \in 1..Len(new) |-> new[i].id])

\* SimpleVectorStore.add(chunks, embeddings)
SimpleAdd(items, chunks, embeddings) ==
    IF chunks = <<>> \/ embeddings = <<>>
    THEN AddReturns(items, <<>>)
    ELSE IF Len(chunks) # Len(embeddings)
    THEN AddRaises(items, "ValueError")
    ELSE LET new == Stored("simple", chunks, embeddings)
         IN  AddReturns(items \o new, [i \in 1..Len(new) |-> new[i].id])

StoreInit ==
    /\ vsKind \in StoreKinds
    /\ vsItems = <<>>
    /\ vsOut = [op |-> "none"]
    /\ vsCalls = 0

StoreIdle ==
    /\ vsKind = "simple"
    /\ vsItems = <<>>
    /\ vsOut = [op |-> "none"]
    /\ vsCalls = 0

StoreReturns(chunks, embeddings, r) ==
    /\ vsItems' = r.items
    /\ vsOut' = [op |-> "add", chunks |-> chunks, embeddings |-> embeddings,
                 kind |-> r.kind, exc |-> r.exc, ids |-> r.ids,
                 before |-> vsItems]
    /\ vsCalls' = vsCalls + 1
    /\ UNCHANGED vsKind
    /\ UNCHANGED notStore

\* A call of add on a ChromaVectorStore
CallChromaAdd(chunks, embeddings) ==
    /\ vsKind = "chroma"
    /\ vsCalls < MaxStoreCalls
    /\ StoreReturns(chunks, embeddings, ChromaAdd(vsItems, chunks, embeddings))

\* A call of add on a SimpleVectorStore
CallSimpleAdd(chunks, embeddings) ==
    /\ vsKind = "simple"
    /\ vsCalls < MaxStoreCalls
    /\ StoreReturns(chunks, embeddings, SimpleAdd(vsItems, chunks, embeddings))

StoreNext ==
    \/ \E chunks \in ChunkLists, embeddings \in EmbeddingLists :
         CallChromaAdd(chunks, embeddings)
    \/ \E chunks \in ChunkLists, embeddings \in EmbeddingLists :
         CallSimpleAdd(chunks, embeddings)

----------------------------------------------------------------------------
\* Specifications, one per component

Init ==
    /\ CacheInit
    /\ RetryIdle
    /\ ChunkIdle
    /\ QueryIdle
    /\ ThreadsIdle
    /\ EmbedIdle
    /\ ProviderIdle
    /\ FuseIdle
    /\ TrackerIdle
    /\ IngestIdle
    /\ ContextIdle
    /\ StoreIdle
Next == CacheNext
Spec == Init /\ [][Next]_vars

LRUInit ==
    /\ CacheInit /\ ttl = NoTTL
    /\ RetryIdle
    /\ ChunkIdle
    /\ QueryIdle
    /\ ThreadsIdle
    /\ EmbedIdle
    /\ ProviderIdle
    /\ FuseIdle
    /\ TrackerIdle
    /\ IngestIdle
    /\ ContextIdle
    /\ StoreIdle
SpecLRU == LRUInit /\ [][LRUNext]_vars

InitRetry ==
    /\ CacheIdle
    /\ RetryInit
    /\ ChunkIdle
    /\ QueryIdle
    /\ ThreadsIdle
    /\ EmbedIdle
    /\ ProviderIdle
    /\ FuseIdle
    /\ TrackerIdle
    /\ IngestIdle
    /\ ContextIdle
    /\ StoreIdle
SpecRetry == InitRetry /\ [][RetryNext]_vars

InitChunk ==
    /\ CacheIdle
    /\ RetryIdle
    /\ ChunkInit
    /\ QueryIdle
    /\ ThreadsIdle
    /\ EmbedIdle
    /\ ProviderIdle
    /\ FuseIdle
    /\ TrackerIdle
    /\ IngestIdle
    /\ ContextIdle
    /\ StoreIdle
SpecChunk == InitChunk /\ [][ChunkNext]_vars

InitQuery ==
    /\ CacheIdle
    /\ RetryIdle
    /\ ChunkIdle
    /\ QueryInit
    /\ ThreadsIdle
    /\ EmbedIdle
    /\ ProviderIdle
    /\ FuseIdle
    /\ TrackerIdle
    /\ IngestIdle
    /\ ContextIdle
    /\ StoreIdle
SpecQuery == InitQuery /\ [][QueryNext]_vars

InitThreads ==
    /\ CacheInit /\ ttl = NoTTL
    /\ RetryIdle
    /\ ChunkIdle
    /\ QueryIdle
    /\ ThreadsInit
    /\ EmbedIdle
    /\ ProviderIdle
    /\ FuseIdle
    /\ TrackerIdle
    /\ IngestIdle
    /\ ContextIdle
    /\ StoreIdle
SpecThreads == InitThreads /\ [][ThreadsNext]_vars

InitEmbed ==
    /\ CacheInit
    /\ RetryIdle
    /\ ChunkIdle
    /\ QueryIdle
    /\ ThreadsIdle
    /\ EmbedInit
    /\ ProviderIdle
    /\ FuseIdle
    /\ TrackerIdle
    /\ IngestIdle
    /\ ContextIdle
    /\ StoreIdle
SpecEmbed == InitEmbed /\ [][EmbedNext]_vars

InitProvider ==
    /\ CacheIdle
    /\ RetryIdle
    /\ ChunkIdle
    /\ QueryIdle
    /\ ThreadsIdle
    /\ EmbedIdle
    /\ ProviderInit
    /\ FuseIdle
    /\ TrackerIdle
    /\ IngestIdle
    /\ ContextIdle
    /\ StoreIdle
SpecProvider == InitProvider /\ [][ProviderNext]_vars

InitFuse ==
    /\ CacheIdle
    /\ RetryIdle
    /\ ChunkIdle
    /\ QueryIdle
    /\ ThreadsIdle
    /\ EmbedIdle
    /\ ProviderIdle
    /\ FuseInit
    /\ TrackerIdle
    /\ IngestIdle
    /\ ContextIdle
    /\ StoreIdle
SpecFuse == InitFuse /\ [][FuseNext]_vars

InitFiles ==
    /\ CacheIdle
    /\ RetryIdle
    /\ ChunkIdle
    /\ QueryIdle
    /\ ThreadsIdle
    /\ EmbedIdle
    /\ ProviderIdle
    /\ FuseIdle
    /\ TrackerInit
    /\ IngestIdle
    /\ ContextIdle
    /\ StoreIdle
SpecFiles == InitFiles /\ [][FilesNext]_vars

InitHistory ==
    /\ CacheIdle
    /\ RetryIdle
    /\ ChunkIdle
    /\ QueryIdle
    /\ ThreadsIdle
    /\ EmbedIdle
    /\ ProviderIdle
    /\ FuseIdle
    /\ TrackerInit
    /\ IngestIdle
    /\ ContextIdle
    /\ StoreIdle
SpecHistory == InitHistory /\ [][HistoryNext]_vars

InitIngest ==
    /\ CacheIdle
    /\ RetryIdle
    /\ ChunkIdle
    /\ QueryIdle
    /\ ThreadsIdle
    /\ EmbedIdle
    /\ ProviderIdle
    /\ FuseIdle
    /\ TrackerInit
    /\ IngestInit
    /\ ContextIdle
    /\ StoreIdle
SpecIngest == InitIngest /\ [][IngestNext]_vars

InitContext ==
    /\ CacheIdle
    /\ RetryIdle
    /\ ChunkIdle
    /\ QueryIdle
    /\ ThreadsIdle
    /\ EmbedIdle
    /\ ProviderIdle
    /\ FuseIdle
    /\ TrackerIdle
    /\ IngestIdle
    /\ ContextInit
    /\ StoreIdle
SpecContext == InitContext /\ [][ContextNext]_vars

InitStore ==
    /\ CacheIdle
    /\ RetryIdle
    /\ ChunkIdle
    /\ QueryIdle
    /\ ThreadsIdle
    /\ EmbedIdle
    /\ ProviderIdle
    /\ FuseIdle
    /\ TrackerIdle
    /\ IngestIdle
    /\ ContextIdle
    /\ StoreInit
SpecStore == InitStore /\ [][StoreNext]_vars

----------------------------------------------------------------------------
\* The entry of c whose latest successful get or put is the oldest
OldestAccessed(c, acc) ==
    CHOOSE k \in KeysOf(c) : \A j \in KeysOf(c) : acc[k] <= acc[j]

\* The latest call was a put of a key the cache did not hold, on a full cache
PutNewOnFull ==
    /\ last.op = "put"
    /\ last.key \notin KeysOf(last.pre)
    /\ Len(last.pre) = capacity

GetOfHeldKey ==
    /\ last.op = "get"
    /\ last.key \in KeysOf(last.pre)
    /\ ttl # NoTTL

\* C2: on a cache built with any TTL value t, get of an entry written at w is
\* a hit returning the value while now - w <= t, and when now - w > t it
\* returns None, removes the entry and counts one miss and no hit.
C2_TTLAnyValue ==
    GetOfHeldKey =>
        LET e == Entry(last.pre, last.key) IN
        IF last.at - e.timestamp <= ttl[1]
        THEN /\ last.ret = e.value
             /\ stats.hits = last.preStats.hits + 1
             /\ stats.misses = last.preStats.misses
        ELSE /\ last.ret = None
             /\ last.key \notin KeysOf(cache)
             /\ stats.misses = last.preStats.misses + 1
             /\ stats.hits = last.preStats.hits

----------------------------------------------------------------------------
\* retry

\* Invocation i of the wrapped function raises an exception of the tuple
FailsRetryably(i) ==
    retryFunc[i].kind = "raise" /\ IsCaught(retryFunc[i].exc, retryCfg.exceptions)

\* C3: with max_attempts = M, if the first M-1 invocations raise a retryable
\* exception and the M-th returns v, the wrapper returns v; if M invocations
\* all raise a retryable exception, the wrapper raises AllRetriesFailed with
\* attempts = M.
C3_RetryDeterminism ==
    retryOut.kind # "pending" =>
        LET M == retryCfg.max_attempts IN
        /\ (/\ M >= 1
            /\ \A i \in 1..(M - 1) : FailsRetryably(i)
            /\ retryFunc[M].kind = "ok")
              => /\ retryOut.kind = "return"
                 /\ retryOut.value = retryFunc[M].value
        /\ (\A i \in 1..M : FailsRetryably(i))
              => /\ retryOut.kind = "raise"
                 /\ retryOut.exc = "AllRetriesFailed"
                 /\ retryOut.attempts = M

\* C3 witness: two retryable failures, then the third and last allowed
\* invocation returns, and the wrapper has returned
C3_Witness ==
    /\ retryOut.kind = "return"
    /\ retryCfg.max_attempts = 3
    /\ FailsRetryably(1) /\ FailsRetryably(2)
    /\ retryFunc[3].kind = "ok"
    /\ Invocations(retryOut.log) = 3

----------------------------------------------------------------------------
\* BasicChunker

CeilDiv(a, b) == (a + b - 1) \div b
Frags == chunkOut.chunks
Step == chunkCfg.chunk_size - chunkCfg.chunk_overlap

\* chunk returns 2 fragments of 50 and 11 characters for the 61 characters
SimpleChunking ==
    (chunkCfg = SimpleCfg /\ chunkDoc = SimpleText) =>
        /\ Len(Frags) = 2
        /\ Frags[1].chunk_length = 50 /\ Len(Frags[1].text) = 50
        /\ Frags[2].chunk_length = 11 /\ Len(Frags[2].text) = 11

\* C7 as stated: a text of length L >= 1 gives
\* ceil(max(L - overlap, 1) / (size - overlap)) fragments, an empty text none,
\* and 61 characters with size 50 and overlap 0 give fragments of 50 and 11.
C7_CountAsStated ==
    chunkOut.kind = "return" =>
        /\ Len(chunkDoc) = 0 => Len(Frags) = 0
        /\ Len(chunkDoc) >= 1 =>
             Len(Frags) = CeilDiv(Max(Len(chunkDoc) - chunkCfg.chunk_overlap, 1), Step)
        /\ SimpleChunking

\* C7 amended: a text of length L >= 1 gives ceil(L / (size - overlap))
\* fragments (one per window start below L), an empty text none, and 61
\* characters with size 50 and overlap 0 give fragments of 50 and 11.
C7_ChunkCount ==
    chunkOut.kind = "return" =>
        /\ Len(chunkDoc) = 0 => Len(Frags) = 0
        /\ Len(chunkDoc) >= 1 => Len(Frags) = CeilDiv(Len(chunkDoc), Step)
        /\ SimpleChunking

\* C7 witness: the 61 characters were chunked with size 50 and overlap 0
C7_Witness ==
    /\ chunkOut.kind = "return"
    /\ chunkCfg = SimpleCfg /\ chunkDoc = SimpleText
    /\ Len(Frags) = 2

\* The characters fragments i and i+1 have in common
Shared(i) == Frags[i].end_offset - Frags[i + 1].start_offset

\* The spans cover [0, L) without gaps, fragment i (counted from 0) starts at
\* i * (size - overlap) and holds text[start_offset:end_offset]
SpansCover ==
    /\ Len(chunkDoc) >= 1 =>
         /\ Len(Frags) >= 1
         /\ Frags[1].start_offset = 0
         /\ Frags[Len(Frags)].end_offset = Len(chunkDoc)
    /\ \A i \in 1..Len(Frags) :
         /\ Frags[i].chunk_index = i - 1
         /\ Frags[i].start_offset = (i - 1) * Step
         /\ Frags[i].start_offset < Frags[i].end_offset
         /\ Frags[i].end_offset <= Len(chunkDoc)
         /\ Frags[i].text =
              SubSeq(chunkDoc, Frags[i].start_offset + 1, Frags[i].end_offset)
    /\ \A i \in 1..(Len(Frags) - 1) :
         Frags[i + 1].start_offset <= Frags[i].end_offset

\* C8 as stated: the spans cover [0, L) without gaps, fragment i starts at
\* i * (size - overlap) and holds text[start_offset:end_offset], and each
\* consecutive pair shares exactly `overlap` characters, except a pair whose
\* second member is the final fragment.
C8_OverlapAsStated ==
    chunkOut.kind = "return" =>
        /\ SpansCover
        /\ \A i \in 1..(Len(Frags) - 1) :
             (i + 1 # Len(Frags)) => Shared(i) = chunkCfg.chunk_overlap

\* C8 amended: as stated, but the pairs that share fewer than `overlap`
\* characters are those whose first member is cut short by the end of the
\* text (it has fewer than `size` characters); these share the whole of the
\* second member, and every other pair shares exactly `overlap` characters.
C8_Overlap ==
    chunkOut.kind = "return" =>
        /\ SpansCover
        /\ \A i \in 1..(Len(Frags) - 1) :
             IF Frags[i].chunk_length = chunkCfg.chunk_size
             THEN Shared(i) = chunkCfg.chunk_overlap
             ELSE /\ Shared(i) = Frags[i + 1].chunk_length
                  /\ Shared(i) < chunkCfg.chunk_overlap

\* C8 witness: a text chunked with overlap into three or more fragments, with
\* a full-size pair sharing `overlap` characters and a later fragment that is
\* cut short without being the last but one
C8_Witness ==
    /\ chunkOut.kind = "return"
    /\ chunkCfg.chunk_overlap > 0
    /\ Len(Frags) >= 4
    /\ Frags[1].chunk_length = chunkCfg.chunk_size
    /\ Shared(1) = chunkCfg.chunk_overlap
    /\ \E i \in 2..(Len(Frags) - 2) : Frags[i].chunk_length < chunkCfg.chunk_size

----------------------------------------------------------------------------
\* QueryEngine.query

Asked == queryOut.kind # "pending"
\* query called the collaborator c
Made(c) == \E i \in DOMAIN queryOut.calls : queryOut.calls[i] = c
LLMCalls == Len(SelectSeq(queryOut.calls, LAMBDA c : c = "llm"))
\* the question is empty or holds white space only
WhiteSpaceOnly == \A i \in DOMAIN queryIn.question : queryIn.question[i] = " "
\* the vector store was queried and returned at least one fragment
RetrievedSome ==
    /\ Made("retrieve")
    /\ queryIn.fault \notin {"embed", "retrieve"}
    /\ queryIn.found >= 1
\* the language-model API fails on every call
EveryApiCallFails ==
    \A i \in 1..ProviderAttempts : queryIn.api[i].kind = "raise"
EveryApiCallFailsRetryably ==
    \A i \in 1..ProviderAttempts :
        /\ queryIn.api[i].kind = "raise"
        /\ queryIn.api[i].exc \in ProviderRetryable
\* no call to the state tracker or the context assembler raises
NoOtherStageRaises ==
    \/ queryIn.fault = "none"
    \/ ~queryIn.tracked /\ queryIn.fault \in {"history_get", "history_add"}
\* the answer is the degraded one and shows retrieved fragments
DegradedWithExcerpt ==
    /\ queryOut.kind = "return"
    /\ queryOut.answer.type = "degraded"
    /\ queryOut.answer.excerpts # <<>>
    /\ \A i \in DOMAIN queryOut.answer.excerpts :
           \E j \in DOMAIN queryOut.context_chunks :
               queryOut.answer.excerpts[i] = queryOut.context_chunks[j]

StageRaised ==
    \/ \E f \in Faults \ {"none"} : Made(f) /\ queryIn.fault = f
    \/ /\ LLMCalls >= 1
       /\ queryIn.api[LLMCalls].kind = "raise"
       /\ queryIn.api[LLMCalls].exc \notin ProviderRetryable

\* C5: for a non-empty question, an exception raised in a pipeline stage
\* (embedding, retrieval, context assembly, synthesis, history persistence)
\* does not reach the caller: query returns a QueryResult with the fixed
\* apology answer (and no context fragments).
C5_ApologyOnException ==
    (Asked /\ ~WhiteSpaceOnly /\ StageRaised)
        => /\ queryOut.kind = "return"
           /\ queryOut.answer = Apology
           /\ queryOut.context_chunks = <<>>
           /\ queryOut.question = queryIn.question

\* C5 witness: the last stage, the write to the history, raised after the
\* answer was synthesized, and query returned the apology
C5_Witness ==
    /\ Asked
    /\ queryIn.fault = "history_add" /\ Made("history_add")
    /\ queryIn.api[1].kind = "ok"
    /\ queryOut.kind = "return" /\ queryOut.answer = Apology

\* C6 as stated: query with an empty or whitespace-only question raises a
\* validation error and calls neither the embedding generator, the vector
\* store, the synthesizer nor the state tracker.
C6_BlankRejectedAsStated ==
    (Asked /\ WhiteSpaceOnly)
        => /\ queryOut.kind = "raise"
           /\ queryOut.exc = "ValueError"
           /\ queryOut.calls = <<>>

\* C6 amended: query with an empty or whitespace-only question raises
\* without calling the embedding generator, the vector store, the
\* synthesizer or the state tracker; it raises the validation error, unless
\* authentication is required and the API key is not valid: then it raises
\* PermissionError.
C6_BlankRejected ==
    (Asked /\ WhiteSpaceOnly)
        => /\ queryOut.kind = "raise"
           /\ queryOut.calls = <<>>
           /\ queryOut.added = <<>>
           /\ queryOut.exc =
                IF queryIn.require_auth /\ queryIn.api_key \notin ValidKeys
                THEN "PermissionError"
                ELSE "ValueError"

\* C6 witness: a question of white space was rejected with the validation
\* error by an engine that requires authentication
C6_Witness ==
    /\ Asked
    /\ queryIn.question # <<>> /\ WhiteSpaceOnly
    /\ queryIn.require_auth
    /\ queryOut.kind = "raise" /\ queryOut.exc = "ValueError"

----------------------------------------------------------------------------
\* LRUCache shared by threads

\* A thread is inside get, put, clear or get_stats only while it holds the lock
MutualExclusion == \A t \in Threads : pc[t] # "idle" => lock = t

----------------------------------------------------------------------------
\* CachedEmbeddingWrapper.embed_batch

\* The i-th chunk of the latest batch was a cache hit: when the call began the
\* cache held an unexpired entry under the digest of its text
WasHit(i) ==
    \E n \in 1..Len(embedOut.pre) :
        /\ embedOut.pre[n].key = Digests[embedOut.chunks[i]]
        /\ ~(Truthy(ttl) /\ embedOut.at - embedOut.pre[n].timestamp > ttl[1])

NotHit == {i \in 1..Len(embedOut.chunks) : ~WasHit(i)}

\* The members of a set of indices, in increasing order
RECURSIVE InOrder(_)
InOrder(S) ==
    IF S = {} THEN <<>>
    ELSE LET m == CHOOSE x \in S : \A y \in S : x <= y
         IN  <<m>> \o InOrder(S \ {m})

\* C10: embed_batch(chunks) returns as many results as chunks, the i-th being
\* the embedding of chunks[i]; it calls the generator at most once, with
\* exactly the chunks that were not a cache hit, in input order, and not at
\* all when every chunk was a hit; and it writes every embedding the
\* generator produced to the cache under the SHA-256 digest of its text.
C10_EmbedBatch ==
    embedOut.kind = "return" =>
        LET chunks == embedOut.chunks
            order == InOrder(NotHit)
        IN  /\ Len(embedOut.results) = Len(chunks)
            /\ \A i \in 1..Len(chunks) :
                    embedOut.results[i] = Vectors[chunks[i]]
            /\ Len(embedOut.generated) <= 1
            /\ (NotHit = {}) <=> (embedOut.generated = <<>>)
            /\ NotHit # {} =>
                    embedOut.generated[1] = [j \in 1..Len(order) |-> chunks[order[j]]]
            /\ embedOut.puts =
                    [j \in 1..Len(order) |->
                        <<Digests[chunks[order[j]]], Vectors[chunks[order[j]]]>>]

\* C10 witness: a batch of two different texts of which the first was cached
\* and the second was not; the generator was called with the second alone
C10_Witness ==
    /\ embedOut.kind = "return"
    /\ Len(embedOut.chunks) = 2
    /\ embedOut.chunks[1] # embedOut.chunks[2]
    /\ WasHit(1) /\ ~WasHit(2)
    /\ embedOut.generated = << <<embedOut.chunks[2]>> >>
    /\ embedOut.results = <<Vectors[embedOut.chunks[1]], Vectors[embedOut.chunks[2]]>>

----------------------------------------------------------------------------
\* OpenAIProvider.generate_answer

\* The failure classes of an authentication failure and a malformed request
PermanentFailures == {"AuthenticationError", "BadRequestError"}
Sleeps(log) == Len(SelectSeq(log, LAMBDA ev : ev[1] = "sleep"))

\* C11: when the API fails with a permanent failure class (authentication
\* failure, malformed request), generate_answer invokes it exactly once,
\* sleeps for no backoff, and raises an error that is not the
\* retries-exhausted one.
C11_PermanentNotRetried ==
    (/\ provOut.kind # "pending"
     /\ provApi[1].kind = "raise"
     /\ provApi[1].exc \in PermanentFailures)
        => /\ Invocations(provOut.log) = 1
           /\ Sleeps(provOut.log) = 0
           /\ provOut.kind = "raise"
           /\ provOut.exc # "AllRetriesFailed"

----------------------------------------------------------------------------
\* EnsembleRetriever.get_relevant_documents

Fused == fuseOut.docs
NonIncreasing ==
    \A i \in 1..(Len(Fused) - 1) : ~Greater(Fused[i + 1].score, Fused[i].score)
\* The candidates: retriever (1 dense, 2 lexical), 0-based rank, fragment
Candidates ==
    {<<1, r - 1, fuseIn.dense[r]>> : r \in DOMAIN fuseIn.dense}
        \cup {<<2, r - 1, fuseIn.lexical[r]>> : r \in DOMAIN fuseIn.lexical}
CandidateKeys == {DocKey(c[3]) : c \in Candidates}

\* C12 as stated: the fused list is ordered by score, non-increasing, and
\* holds at most top_k fragments.
C12_TruncatedToTopK ==
    fuseOut.kind = "return" =>
        /\ NonIncreasing
        /\ Len(Fused) <= fuseIn.top_k

\* C12 amended: the fused list is ordered by score, non-increasing, and holds
\* one fragment per deduplication key among the candidates: nothing is cut
\* off, so it holds at most 2 * top_k fragments.
C12_SortedAllCandidates ==
    fuseOut.kind = "return" =>
        /\ NonIncreasing
        /\ Len(Fused) = Cardinality(CandidateKeys)
        /\ Len(Fused) <= 2 * fuseIn.top_k

\* C12 witness: both retrievers returned top_k fragments, all different, and
\* the fused list holds 2 * top_k of them with a score that drops
C12_Witness ==
    /\ fuseOut.kind = "return"
    /\ fuseIn.top_k = 2
    /\ Len(Fused) = 2 * fuseIn.top_k
    /\ Greater(Fused[1].score, Fused[Len(Fused)].score)

\* The score of a candidate, in tenths, is at most that of the entry e
AtMost(c, e) == ~Greater(<<fuseIn.weights[c[1]], c[2] + 1>>, e.score)

\* the instance: weights [0.7, 0.3], dense [X, Y], lexical [Y, Z]
FusionScenario ==
    (fuseIn.weights = <<7, 3>> /\ fuseIn.dense = <<DocX, DocY>>
       /\ fuseIn.lexical = <<DocY, DocZ>>)
        => [i \in DOMAIN Fused |-> Fused[i].doc] = <<DocX, DocY, DocZ>>

\* C13: a candidate at 0-based rank r of a retriever with weight w scores
\* w / (r + 1); the fused list holds one fragment per deduplication key, with
\* the highest score among the candidates of that key; weights [0.7, 0.3],
\* dense [X, Y], lexical [Y, Z] give X, Y, Z.
C13_FusionScores ==
    fuseOut.kind = "return" =>
        /\ \A i, j \in DOMAIN Fused :
               DocKey(Fused[i].doc) = DocKey(Fused[j].doc) => i = j
        /\ {DocKey(Fused[i].doc) : i \in DOMAIN Fused} = CandidateKeys
        /\ \A i \in DOMAIN Fused :
             /\ \E c \in Candidates :
                  /\ DocKey(c[3]) = DocKey(Fused[i].doc)
                  /\ Fused[i].score = <<fuseIn.weights[c[1]], c[2] + 1>>
                  /\ Fused[i].doc = c[3]
             /\ \A c \in Candidates :
                  DocKey(c[3]) = DocKey(Fused[i].doc) => AtMost(c, Fused[i])
        /\ FusionScenario

\* C13 witness: the instance was fused, Y keeping its dense score 0.7 / 2
C13_Witness ==
    /\ fuseOut.kind = "return"
    /\ fuseIn.weights = <<7, 3>> /\ fuseIn.dense = <<DocX, DocY>>
    /\ fuseIn.lexical = <<DocY, DocZ>>
    /\ Len(Fused) = 3 /\ Fused[2].doc = DocY /\ Fused[2].score = <<7, 2>>

----------------------------------------------------------------------------
\* StateTracker

\* The questions of a session in the order in which they were added
AddedTo(table, session_id) ==
    LET rows == SelectSeq(table, LAMBDA r : r.session_id = session_id)
    IN  [i \in 1..Len(rows) |-> rows[i].question]
LastOf(q, n) == SubSeq(q, Len(q) - n + 1, Len(q))

\* C14: get_query_history(session_id, limit) returns the min(limit, n) most
\* recently added entries of the session, oldest first, also when entries
\* carry the same created_at, and no entry of another session.
C14_RecentHistoryInOrder ==
    trackOut.op = "get_query_history" =>
        LET added == AddedTo(trackOut.history, trackOut.args[1])
            limit == trackOut.args[2]
            n == IF limit < Len(added) THEN limit ELSE Len(added)
        IN  [i \in DOMAIN trackOut.ret |-> trackOut.ret[i].question]
                = LastOf(added, n)

\* The records a cleanup_old_records call had to delete
Terminal == {COMPLETED, FAILED}
Cutoff == trackOut.at - trackOut.args[1]
ToDelete ==
    {p \in Paths : /\ trackOut.files[p].status \in Terminal
                   /\ trackOut.files[p].updated_at < Cutoff}

\* C15: cleanup_old_records(days) deletes exactly the records that are
\* Completed or Failed and were updated before the cutoff, returns their
\* number, and leaves every Seen or Processing record and every newer
\* terminal record as it was.
C15_CleanupOnlyOldTerminal ==
    trackOut.op = "cleanup_old_records" =>
        /\ \A p \in ToDelete : files[p] = NoRecord
        /\ \A p \in Paths \ ToDelete : files[p] = trackOut.files[p]
        /\ trackOut.ret = Cardinality(ToDelete)

\* C15 witness: a cleanup deleted one old terminal record and kept an
\* in-flight record that is just as old
C15_Witness ==
    /\ trackOut.op = "cleanup_old_records"
    /\ trackOut.ret = 1
    /\ \E p \in Paths :
         /\ files[p].status \in {SEEN, PROCESSING}
         /\ files[p].updated_at < Cutoff

\* The path and the status before and after the latest lifecycle call
LifecycleOps ==
    [record_processing_start |-> PROCESSING,
     record_processing_complete |-> COMPLETED,
     record_processing_failed |-> FAILED]
LifecycleCall == trackOut.op \in DOMAIN LifecycleOps
Before == trackOut.files[trackOut.args[1]].status
After == files[trackOut.args[1]].status
Rank(status) ==
    CASE status = SEEN -> 1 [] status = PROCESSING -> 2 [] OTHER -> 3

\* C16 as stated: unless record_file_seen overwrites the record, the status
\* of a path only moves forward along Seen, Processing, {Completed, Failed}:
\* a terminal status does not return to Processing and does not switch
\* between Completed and Failed.
C16_ForwardOnly ==
    (LifecycleCall /\ Before # None) =>
        /\ Rank(After) >= Rank(Before)
        /\ Before \in Terminal => After = Before

\* C16 amended: record_processing_start, _complete and _failed store
\* Processing, Completed and Failed on an existing record whatever its status
\* was, and do nothing to a path without record; record_file_seen stores
\* Seen. The status therefore moves one step forward when start is called on
\* a Seen record and complete or failed on a Processing record.
C16_LatestCallWins ==
    /\ LifecycleCall =>
         /\ Before = None => files = trackOut.files
         /\ Before # None => After = LifecycleOps[trackOut.op]
         /\ \A p \in Paths \ {trackOut.args[1]} : files[p] = trackOut.files[p]
         /\ (\/ trackOut.op = "record_processing_start" /\ Before = SEEN
             \/ trackOut.op # "record_processing_start" /\ Before = PROCESSING)
                => Rank(After) = Rank(Before) + 1
    /\ trackOut.op = "record_file_seen" => After = SEEN

\* C16 witness: record_processing_start put a Completed record back to
\* Processing
C16_Witness ==
    /\ trackOut.op = "record_processing_start"
    /\ Before = COMPLETED
    /\ After = PROCESSING

----------------------------------------------------------------------------
\* FileSystemDocumentProcessor

\* C17: process_batch(paths) does not raise when a document of the batch
\* fails: it goes on with the remaining paths, and when it returns every
\* path of the batch has a terminal status, Completed for each document that
\* processed and Failed for each that did not.
C17_BatchContinues ==
    (ingestOut.op = "process_batch" /\ ingestOut.paths # <<>>) =>
        /\ ingestOut.kind = "return"
        /\ \A i \in DOMAIN ingestOut.paths :
             files[ingestOut.paths[i]].status =
                 IF docFault[ingestOut.paths[i]] = "none" THEN COMPLETED
                 ELSE FAILED

\* C18: process_document(path) with a state tracker records Seen, then
\* Processing, then exactly one terminal status: Completed if and only if it
\* returns its chunks, Failed with an error message if and only if it raises;
\* the record is never left in Seen or Processing.
C18_LifecycleOrder ==
    ingestOut.op = "process_document" =>
        LET record == files[ingestOut.path] IN
        /\ Len(ingestOut.log) = 3
        /\ SubSeq(ingestOut.log, 1, 2) = <<SEEN, PROCESSING>>
        /\ ingestOut.log[3] = record.status
        /\ ingestOut.kind = "return" <=> record.status = COMPLETED
        /\ ingestOut.kind = "raise" <=> record.status = FAILED
        /\ ingestOut.kind = "return" <=> docFault[ingestOut.path] = "none"
        /\ record.status = FAILED => record.error_message # None
        /\ record.status = COMPLETED => ingestOut.chunks # <<>>

\* C18 witness: a document that had been processed before failed at the
\* embedding step of its second processing and is recorded as Failed
C18_Witness ==
    /\ ingestOut.op = "process_document"
    /\ ingestOut.kind = "raise"
    /\ ingestOut.log = <<SEEN, PROCESSING, FAILED>>
    /\ ingestOut.files[ingestOut.path].status = FAILED
    /\ files[ingestOut.path].error_message = "RuntimeError"

----------------------------------------------------------------------------
\* LLMSynthesizer._format_context_for_prompt

Formatted == ctxOut.op = "format"

NoContextSentinel == <<"no context provided">>

\* the number of leading chunks whose blocks fit the budget together
RECURSIVE SumTokens(_, _)
SumTokens(chunks, n) ==
    IF n = 0 THEN 0 ELSE SumTokens(chunks, n - 1) + chunks[n].num_tokens

ZeroFit ==
    \/ ctxOut.chunks = <<>>
    \/ ctxOut.chunks[1].num_tokens > TOKEN_BUDGET

\* C19: when no fragment fits the token budget (empty list, or the first
\* block alone is over the budget), _format_context_for_prompt returns the
\* "no context provided" sentinel, never the empty string.
C19_SentinelWhenNothingFits ==
    (Formatted /\ ZeroFit) =>
        /\ ctxOut.context = NoContextSentinel
        /\ ctxOut.context # EmptyString

\* C20: the context is the blocks of a prefix of the ranked list, in order,
\* each with its fragment's whole text; the tokens of the included blocks sum
\* to at most TOKEN_BUDGET; the prefix is maximal: the first excluded block
\* would push the count over the budget, and nothing after it is included.
C20_MaximalPrefixWithinBudget ==
    Formatted =>
        LET chunks == ctxOut.chunks
            n == Len(ctxOut.context)
        IN  /\ n <= Len(chunks)
            /\ \A i \in 1..n :
                 /\ ctxOut.context[i].text = chunks[i].text
                 /\ ctxOut.context[i].source = i
            /\ SumTokens(chunks, n) <= TOKEN_BUDGET
            /\ ctxOut.total_tokens = SumTokens(chunks, n)
            /\ n < Len(chunks) =>
                 SumTokens(chunks, n) + chunks[n + 1].num_tokens > TOKEN_BUDGET

\* C20 witness: two blocks fill the budget exactly and are both included; the
\* third is left out
C20_Witness ==
    /\ Formatted
    /\ Len(ctxOut.chunks) = 3
    /\ Len(ctxOut.context) = 2
    /\ ctxOut.total_tokens = TOKEN_BUDGET
    /\ ctxOut.chunks[3].num_tokens = 1

----------------------------------------------------------------------------
\* Conversation history written by synthesize

\* the columns of a query_history row that synthesize fills in or the tracker
\* adds for every entry alike
PlainColumns == {"session_id", "question", "answer", "created_at"}

DegradedRecorded ==
    /\ Asked
    /\ queryOut.kind = "return"
    /\ queryOut.answer.type = "degraded"
    /\ queryOut.added # <<>>

\* C21: with history tracking on, the entry written for a degraded answer is
\* flagged distinctly from a normal synthesized answer, and it is not replayed
\* into a later prompt as a normal assistant answer.
C21_DegradedFlagged ==
    DegradedRecorded =>
        LET row == queryOut.added[1]
            replay == FormatHistoryForPrompt(queryOut.added)
        IN  /\ ~(DOMAIN row \subseteq PlainColumns)
            /\ \A i \in DOMAIN replay : replay[i] # <<"Assistant", row.answer>>


SynthesizedReturned ==
    /\ Asked
    /\ queryOut.kind = "return"
    /\ queryOut.answer.type = "synthesized"

\* the calls of query and synthesize to their collaborators, without the
\* invocations of the API that generate_answer makes under its retry
Stages == SelectSeq(queryOut.calls, LAMBDA c : c # "llm")

\* C25: a query that returns a synthesized answer has called, in this order
\* and once each: the embedding generator, the vector store, the session
\* history (read), the context assembler, the language-model capability, the
\* session history (append). History is read and appended only with a session
\* id and a state tracker, and the append comes after the answer, so the
\* history handed to the language model does not hold the current question.
C25_PipelineOrder ==
    SynthesizedReturned =>
        /\ Stages = IF queryIn.tracked
                    THEN <<"embed", "retrieve", "history_get", "context",
                           "generate_answer", "history_add">>
                    ELSE <<"embed", "retrieve", "context", "generate_answer">>
        /\ LLMCalls \in 1..ProviderAttempts
        /\ \A i \in DOMAIN queryOut.calls :
             queryOut.calls[i] = "llm" =>
                /\ \E j \in 1..(i - 1) : queryOut.calls[j] = "generate_answer"
                /\ \A j \in 1..(i - 1) : queryOut.calls[j] # "history_add"
        /\ queryOut.added =
             IF queryIn.tracked
             THEN <<[question |-> queryIn.question, answer |-> queryOut.answer]>>
             ELSE <<>>

\* C25 witness: a tracked query whose first API call failed retryably and
\* whose second answered
C25_Witness ==
    /\ SynthesizedReturned
    /\ queryIn.tracked
    /\ LLMCalls = 2
    /\ queryOut.calls[Len(queryOut.calls)] = "history_add"

NoAnswerFromContext ==
    /\ Asked
    /\ queryOut.kind = "return"
    /\ queryOut.answer.type \in {Apology.type, NotEnoughInfo.type}

----------------------------------------------------------------------------
\* LRUCache: size and counters

\* the latest call was put(k, v) with k absent from a full cache
PutNewKeyOnFull ==
    /\ last.op = "put"
    /\ last.key \notin KeysOf(last.pre)
    /\ Len(last.pre) >= capacity

\* C22: after any sequence of get, put and clear on a cache of capacity
\* N >= 1 there are at most N entries, at most one per key, the reported
\* size is the number of entries, and right after put(k, v) the cache holds
\* k with value v.
C22_CacheInvariants ==
    /\ capacity >= 1
    /\ Len(cache) <= capacity
    /\ \A i, j \in DOMAIN cache : cache[i].key = cache[j].key => i = j
    /\ stats.size = Len(cache)
    /\ GetStatsInternal(cache, stats, capacity).size = Len(cache)
    /\ last.op = "put" =>
         /\ last.key \in KeysOf(cache)
         /\ Entry(cache, last.key).value = last.value

\* C22 witness: a put of a new key into a full cache evicted another key and
\* the cache holds the new one
C22_Witness ==
    /\ PutNewKeyOnFull
    /\ Len(cache) = capacity
    /\ last.key \in KeysOf(cache)
    /\ \E k \in KeysOf(last.pre) : k \notin KeysOf(cache)

\* C23: the evictions counter grows by exactly one on a put of a new key
\* into a full cache and is unchanged by every other call: a put on an
\* existing key (new value and timestamp, key most recently used, same
\* size), a put of a new key below capacity, a get (also one that removes an
\* expired entry) and clear.
C23_EvictionsCounter ==
    last.op # "none" =>
        /\ stats.evictions =
             last.preStats.evictions + (IF PutNewKeyOnFull THEN 1 ELSE 0)
        /\ (last.op = "put" /\ last.key \in KeysOf(last.pre)) =>
             /\ Len(cache) = Len(last.pre)
             /\ cache[Len(cache)] =
                  [key |-> last.key, value |-> last.value,
                   timestamp |-> last.at]
        /\ PutNewKeyOnFull => Len(cache) = Len(last.pre)

\* C23 witness: after an eviction was counted, a get removed an expired entry
\* and left the counter alone
C23_Witness ==
    /\ last.op = "get"
    /\ last.key \in KeysOf(last.pre)
    /\ last.key \notin KeysOf(cache)
    /\ last.preStats.evictions = 1
    /\ stats.evictions = 1

----------------------------------------------------------------------------
\* retry: sleeps, termination and exceptions outside the tuple

Finished == retryOut.kind # "pending"
RetryLog == retryOut.log
SleepsIn(log) == Len(SelectSeq(log, LAMBDA ev : ev[1] = "sleep"))

\* C24: after the k-th invocation fails retryably and k < max_attempts the
\* wrapper sleeps once, for backoff_base * backoff_multiplier^(k-1), and then
\* makes invocation k+1; it sleeps at no other time, so a call with j
\* invocations performs exactly j-1 sleeps.
C24_BackoffSleeps ==
    Finished =>
        /\ \A i \in DOMAIN RetryLog :
             (/\ RetryLog[i][1] = "call"
              /\ FailsRetryably(RetryLog[i][2])
              /\ RetryLog[i][2] < retryCfg.max_attempts)
                => /\ i + 2 <= Len(RetryLog)
                   /\ RetryLog[i + 1] =
                        <<"sleep", retryCfg.backoff_base *
                            Pow(retryCfg.backoff_multiplier, RetryLog[i][2] - 1)>>
                   /\ RetryLog[i + 2] = <<"call", RetryLog[i][2] + 1>>
        /\ \A i \in DOMAIN RetryLog :
             RetryLog[i][1] = "sleep" =>
                /\ i > 1
                /\ RetryLog[i - 1][1] = "call"
                /\ FailsRetryably(RetryLog[i - 1][2])
                /\ RetryLog[i - 1][2] < retryCfg.max_attempts
        /\ SleepsIn(RetryLog) = Invocations(RetryLog) - 1

\* C28: a call of the wrapper ends after at least one and at most
\* max_attempts invocations; AllRetriesFailed is raised only after exactly
\* max_attempts invocations that all raised a retryable exception, and its
\* original_exception is the exception the function raised, never None.
C28_BoundedAttempts ==
    Finished =>
        /\ Invocations(RetryLog) >= 1
        /\ Invocations(RetryLog) <= retryCfg.max_attempts
        /\ retryOut.exc = "AllRetriesFailed" =>
             /\ Invocations(RetryLog) = retryCfg.max_attempts
             /\ \A i \in 1..retryCfg.max_attempts : FailsRetryably(i)
             /\ retryOut.original # None
             /\ retryOut.original = retryFunc[retryCfg.max_attempts].exc

\* invocation k was made and raised exc
RaisedAt(k, exc) ==
    /\ k <= Invocations(RetryLog)
    /\ retryFunc[k].kind = "raise"
    /\ retryFunc[k].exc = exc

\* the call ended right after invocation k with exc itself
PropagatedAt(k, exc) ==
    /\ Invocations(RetryLog) = k
    /\ RetryLog[Len(RetryLog)] = <<"call", k>>
    /\ SleepsIn(RetryLog) = k - 1
    /\ retryOut.kind = "raise"
    /\ retryOut.exc = exc

\* C29 as stated: an exception whose type is not in the `exceptions` tuple,
\* raised on attempt k, goes to the caller unchanged right after that
\* invocation: no further invocation, no sleep, no AllRetriesFailed.
C29_TypeNotInTuple ==
    Finished =>
        \A k \in 1..MaxAttempts, exc \in ExcTypes :
            (RaisedAt(k, exc) /\ exc \notin retryCfg.exceptions)
                => PropagatedAt(k, exc)

\* C29: an exception that is not an instance of any type of the `exceptions`
\* tuple (its type is neither in the tuple nor derived from a type in it),
\* raised on attempt k, goes to the caller unchanged right after that
\* invocation: no further invocation, no sleep, no AllRetriesFailed.
C29_UncaughtPropagates ==
    Finished =>
        \A k \in 1..MaxAttempts, exc \in ExcTypes :
            (RaisedAt(k, exc) /\ exc \notin CaughtBy(retryCfg.exceptions))
                => PropagatedAt(k, exc)

\* C29 witness: the first invocation failed retryably, the second raised an
\* exception no type of the tuple covers, and the caller got that exception
C29_Witness ==
    /\ Finished
    /\ retryCfg.max_attempts = 3
    /\ retryFunc[1].kind = "raise"
    /\ retryFunc[1].exc \in CaughtBy(retryCfg.exceptions)
    /\ RaisedAt(2, "TimeoutError")
    /\ "TimeoutError" \notin CaughtBy(retryCfg.exceptions)
    /\ retryOut.exc = "TimeoutError"
    /\ Invocations(RetryLog) = 2

----------------------------------------------------------------------------
\* StateTracker: what changes the conversation history

RowsOf(table, session_id) ==
    SelectSeq(table, LAMBDA r : r.session_id = session_id)

\* C26: the history of a session changes in two ways only:
\* add_query_to_history appends exactly one new entry to the named session,
\* and delete_session(s) removes all entries of s and returns their number.
\* No call changes an existing entry, and neither call changes the entries
\* of another session.
C26_HistoryFrame ==
    trackOut.op # "none" =>
        LET before == trackOut.history
            sid == trackOut.args[1]
        IN  /\ trackOut.op = "add_query_to_history" =>
                 /\ Len(history) = Len(before) + 1
                 /\ SubSeq(history, 1, Len(before)) = before
                 /\ history[Len(history)].session_id = sid
                 /\ \A i \in DOMAIN before :
                      before[i].id # history[Len(history)].id
                 /\ trackOut.ret = history[Len(history)].id
            /\ trackOut.op = "delete_session" =>
                 /\ RowsOf(history, sid) = <<>>
                 /\ trackOut.ret = Len(RowsOf(before, sid))
                 /\ \A other \in Sessions \ {sid} :
                      RowsOf(history, other) = RowsOf(before, other)
                 /\ Len(history) = Len(before) - trackOut.ret
            /\ trackOut.op \notin {"add_query_to_history", "delete_session"} =>
                 history = before

\* C26 witness: delete_session removed the two entries of one session and
\* left the entry of the other session
C26_Witness ==
    /\ trackOut.op = "delete_session"
    /\ trackOut.ret = 2
    /\ Len(history) = 1
    /\ history[1].session_id # trackOut.args[1]

----------------------------------------------------------------------------
\* VectorStore.add

\* C27: add(chunks, embeddings) rejects every call in which the number of
\* chunks differs from the number of embeddings, also when one of the two
\* lists is empty, with a validation error, and leaves the store as it was.
C27_MismatchRejected ==
    (/\ vsOut.op = "add"
     /\ Len(vsOut.chunks) # Len(vsOut.embeddings))
        => /\ vsOut.kind = "raise"
           /\ vsOut.exc = "ValueError"
           /\ vsItems = vsOut.before

====
